---- MODULE Spec2Model ----
(***************************************************************************)
(* html-to-clean-text: the token-aware chunker (src/src/chunker.ts) and    *)
(* the HTML element extractor (cleaner part of src/src/fetcher.ts).        *)
(*                                                                         *)
(* Strings are sequences of one-character strings.  Positions handed to    *)
(* lastIndexOf / slice / findBreakPoint are 0-based as in the source; the  *)
(* sequence index of position p is p + 1.                                  *)
(*                                                                         *)
(* The source computes with IEEE doubles (x * 1.3, x * 0.5, x * 1.2, ...). *)
(* Every such product is modelled in tenths with integers; for the sizes   *)
(* the bounds below allow (lengths < 90, targetTokens < 11) the double     *)
(* results and the integer results coincide.                               *)
(***************************************************************************)
EXTENDS Integers, Sequences, FiniteSets, TLC

VARIABLES
    text,           \* chunkText: the `text` argument
    targetTokens,   \* chunkText: the `targetTokens` argument
    pc,             \* chunkText: position ("start", "loop", "done")
    maxChars,       \* chunkText: const maxChars (0 until computed)
    remaining,      \* chunkText: let remaining
    chunkNumber,    \* chunkText: let chunkNumber
    chunks,         \* chunkText: const chunks (the array returned)
    doc,            \* parseAndClean: the parsed document (children of <body>)
    open,           \* parseAndClean: open elements of the HTML parser
    elements,       \* parseAndClean: let elements (the array returned)
    cpc,            \* parseAndClean: position ("parsing", "parsed",
                    \* "stripped", "denoised", "extracted", "done")
    html,           \* parseAndClean: the `html` argument (SpecUnwrap: its
                    \* characters and JSON reading; SpecCleanHidden: the
                    \* tree the markup denotes)
    cleanHtml,      \* parseAndClean: let cleanHtml
    upc,            \* parseAndClean: position of the unwrapping step
    rendered,       \* toPlainText / toMarkdown: the string returned
    rpc,            \* toPlainText / toMarkdown: which one has returned
    language,       \* detectLanguage: the code returned
    json,           \* toJSON: the object returned
    jpc,            \* detectLanguage / toJSON: position
    calls,          \* the calls of toPlainText / toMarkdown made so far on
                    \* one element array, each with the string it returned
    chunkSizeInput, \* app: chunkSizeInput.value
    currentMode,    \* app: let currentMode
    currentOutput,  \* app: let currentOutput
    apc,            \* app: position of the cleanHTML handler
    urlInput,       \* app: urlInput.value
    fetchBtn,       \* app: fetchBtn.disabled
    htmlInput,      \* app: htmlInput.value
    fetches,        \* app: the invocations of fetchFromUrl, each with the
                    \* state of its fetchUrl call
    requests        \* the requests handed to fetch(), in the order sent

vars == <<text, targetTokens, pc, maxChars, remaining, chunkNumber, chunks,
          doc, open, elements, cpc, html, cleanHtml, upc, rendered, rpc,
          language, json, jpc, calls, chunkSizeInput, currentMode,
          currentOutput, apc, urlInput, fetchBtn, htmlInput, fetches, requests>>

chunkVars == <<text, targetTokens, pc, maxChars, remaining, chunkNumber, chunks>>
cleanVars == <<doc, open, elements, cpc>>
unwrapVars == <<html, cleanHtml, upc>>
renderVars == <<rendered, rpc>>
jsonVars == <<language, json, jpc>>
appVars == <<chunkSizeInput, currentMode, currentOutput, apc>>
fetchVars == <<urlInput, fetchBtn, htmlInput, fetches, requests>>
pageVars == <<calls, appVars, fetchVars>>
outVars == <<unwrapVars, renderVars, jsonVars, pageVars>>

\* The variables of the operations a specification does not run.
UnwrapIdle == html = <<>> /\ cleanHtml = <<>> /\ upc = "idle"
RenderIdle == rendered = <<>> /\ rpc = "idle"
JsonIdle == language = "" /\ json = <<>> /\ jpc = "idle"
AppIdle ==
    /\ chunkSizeInput = <<>>
    /\ currentMode = "plaintext"
    /\ currentOutput = <<>>
    /\ apc = "idle"
FetchIdle ==
    /\ urlInput = <<>>
    /\ fetchBtn = FALSE
    /\ htmlInput = <<>>
    /\ fetches = <<>>
    /\ requests = <<>>
PageIdle == calls = <<>> /\ AppIdle /\ FetchIdle

(***************************************************************************)
(* Bounds of the model                                                     *)
(***************************************************************************)
MaxLen == 5         \* longest input text of chunkText, in characters
MaxTarget == 5      \* largest targetTokens

\* The characters input texts are drawn from: a word character, the two
\* whitespace characters the break rules look for, two sentence enders.
Alphabet == {"a", " ", "\n", ".", "!"}

Texts == UNION {[1..n -> Alphabet] : n \in 0..MaxLen}

(***************************************************************************)
(* Character classes of the regular expressions \s and \w                  *)
(***************************************************************************)
IsSpace(c) == c \in {" ", "\n", "\t", "\r"}

\* \w is [A-Za-z0-9_]
WORD_CHARS ==
    {"a", "b", "c", "d", "e", "f", "g", "h", "i", "j", "k", "l", "m",
     "n", "o", "p", "q", "r", "s", "t", "u", "v", "w", "x", "y", "z",
     "A", "B", "C", "D", "E", "F", "G", "H", "I", "J", "K", "L", "M",
     "N", "O", "P", "Q", "R", "S", "T", "U", "V", "W", "X", "Y", "Z",
     "0", "1", "2", "3", "4", "5", "6", "7", "8", "9", "_"}

IsWordChar(c) == c \in WORD_CHARS

Minimum(a, b) == IF a <= b THEN a ELSE b

SetMax(S) == CHOOSE m \in S : \A k \in S : k <= m

SetMin(S) == CHOOSE m \in S : \A k \in S : m <= k

\* Math.ceil(n / 10) for n >= 0
CeilTenths(n) == (n + 9) \div 10

(***************************************************************************)
(* String primitives                                                       *)
(***************************************************************************)
\* String.prototype.trim
Trim(s) ==
    LET keep == {i \in DOMAIN s : ~IsSpace(s[i])}
    IN  IF keep = {} THEN <<>> ELSE SubSeq(s, SetMin(keep), SetMax(keep))

\* String.prototype.slice(from) and slice(0, to), 0-based, for 0 <= from, to
SliceFrom(s, from) == SubSeq(s, from + 1, Len(s))

SliceTo(s, to) == SubSeq(s, 1, Minimum(to, Len(s)))

\* String.prototype.lastIndexOf(pat, fromIndex): the largest 0-based position
\* <= fromIndex at which pat occurs, -1 when there is none
lastIndexOf(s, pat, fromIndex) ==
    LET cand == {k \in 0..Minimum(fromIndex, Len(s) - Len(pat)) :
                    SubSeq(s, k + 1, k + Len(pat)) = pat}
    IN  IF cand = {} THEN -1 ELSE SetMax(cand)

\* text.split(/\s+/): the pieces between maximal whitespace runs, the empty
\* pieces at either end included
RECURSIVE SplitFrom(_, _, _, _)
SplitFrom(s, i, cur, acc) ==
    IF i > Len(s) THEN Append(acc, cur)
    ELSE IF IsSpace(s[i])
         THEN LET rest == {j \in i..Len(s) : ~IsSpace(s[j])}
                  nxt == IF rest = {} THEN Len(s) + 1 ELSE SetMin(rest)
              IN  SplitFrom(s, nxt, <<>>, Append(acc, cur))
         ELSE SplitFrom(s, i + 1, Append(cur, s[i]), acc)

SplitWs(s) == SplitFrom(s, 1, <<>>, <<>>)

(***************************************************************************)
(* estimateTokens                                                          *)
(***************************************************************************)
TokenSumMinus(nWords, specialChars) ==
    CeilTenths(IF nWords * 13 >= specialChars * 5
               THEN nWords * 13 - specialChars * 5 ELSE 0)

\* Math.ceil(wordTokens + specialChars * 0.5), in tenths
TokenSum(nWords, specialChars) == CeilTenths(nWords * 13 + specialChars * 5)

WordsOfUnfiltered(s) == SplitWs(s)

\* text.split(/\s+/).filter(w => w.length > 0)
WordsOf(s) == SelectSeq(SplitWs(s), LAMBDA w : Len(w) > 0)

estimateTokens(s) ==
    LET words == WordsOf(s)
        specialChars == Cardinality({i \in DOMAIN s :
                                        ~IsWordChar(s[i]) /\ ~IsSpace(s[i])})
    IN  TokenSum(Len(words), specialChars)

(***************************************************************************)
(* findBreakPoint                                                          *)
(***************************************************************************)
sentenceEnders ==
    << <<".", " ">>, <<"!", " ">>, <<"?", " ">>,
       <<".", "\n">>, <<"!", "\n">>, <<"?", "\n">> >>

\* the for loop over sentenceEnders: bestBreak after enders i..6
RECURSIVE ScanEnders(_, _, _, _)
ScanEnders(s, maxPos, i, bestBreak) ==
    IF i > Len(sentenceEnders) THEN bestBreak
    ELSE LET ender == sentenceEnders[i]
             pos == lastIndexOf(s, ender, maxPos)
         IN  ScanEnders(s, maxPos, i + 1,
                        IF pos > bestBreak /\ 10 * pos > 5 * maxPos
                        THEN pos + Len(ender) ELSE bestBreak)

\* a variant that looks for a sentence ender before it looks for a line break
findBreakRuleSentenceFirst(s, maxPos) ==
    IF 10 * lastIndexOf(s, <<"\n", "\n">>, maxPos) > 5 * maxPos THEN "paragraph"
    ELSE IF ScanEnders(s, maxPos, 1, -1) > 0 THEN "sentence"
    ELSE IF 10 * lastIndexOf(s, <<"\n">>, maxPos) > 6 * maxPos THEN "line"
    ELSE IF 10 * lastIndexOf(s, <<" ">>, maxPos) > 7 * maxPos THEN "space"
    ELSE "hard"

\* which return statement of findBreakPoint is taken
findBreakRule(s, maxPos) ==
    IF 10 * lastIndexOf(s, <<"\n", "\n">>, maxPos) > 5 * maxPos THEN "paragraph"
    ELSE IF 10 * lastIndexOf(s, <<"\n">>, maxPos) > 6 * maxPos THEN "line"
    ELSE IF ScanEnders(s, maxPos, 1, -1) > 0 THEN "sentence"
    ELSE IF 10 * lastIndexOf(s, <<" ">>, maxPos) > 7 * maxPos THEN "space"
    ELSE "hard"

findBreakPoint(s, maxPos) ==
    LET rule == findBreakRule(s, maxPos)
    IN  CASE rule = "paragraph" -> lastIndexOf(s, <<"\n", "\n">>, maxPos) + 2
          [] rule = "line"      -> lastIndexOf(s, <<"\n">>, maxPos) + 1
          [] rule = "sentence"  -> ScanEnders(s, maxPos, 1, -1)
          [] rule = "space"     -> lastIndexOf(s, <<" ">>, maxPos) + 1
          [] OTHER              -> maxPos

(***************************************************************************)
(* chunkText                                                               *)
(***************************************************************************)
\* const maxChars = Math.floor(Math.floor(targetTokens * charsPerToken) * 1.2)
MaxCharsOf(normalizedText, totalTokens, target) ==
    LET targetChars == (target * Len(normalizedText)) \div totalTokens
    IN  (12 * targetChars) \div 10

FitsOneChunkNoSlack(totalTokens, target) == totalTokens <= target

\* if (totalTokens <= targetTokens * 1.2)
FitsOneChunk(totalTokens, target) == 10 * totalTokens <= 12 * target

\* the two branches of the loop body: the text of this chunk ...
ChunkSlice(rem, maxC) ==
    IF Len(rem) <= maxC THEN rem
    ELSE Trim(SliceTo(rem, findBreakPoint(rem, maxC)))

RestSliceSkipOne(rem, maxC) ==
    IF Len(rem) <= maxC THEN <<>>
    ELSE Trim(SliceFrom(rem, findBreakPoint(rem, maxC) + 1))

\* ... and what is left for the next iteration
RestSlice(rem, maxC) ==
    IF Len(rem) <= maxC THEN <<>>
    ELSE Trim(SliceFrom(rem, findBreakPoint(rem, maxC)))

\* if (chunkText) chunks.push({chunk: chunkNumber++, ...})
PushChunk(cs, n, chunkTxt) ==
    IF chunkTxt # <<>>
    THEN Append(cs, [chunk |-> n, text |-> chunkTxt,
                     approx_tokens |-> estimateTokens(chunkTxt)])
    ELSE cs

NextNumberStuck(n, chunkTxt) == n

\* chunkNumber++ (evaluated only when the chunk is pushed)
NextNumber(n, chunkTxt) == IF chunkTxt # <<>> THEN n + 1 ELSE n

\* chunkText up to the while loop: trim, the empty and the single-chunk return
ChunkStart ==
    /\ pc = "start"
    /\ LET normalizedText == Trim(text)
           totalTokens == estimateTokens(normalizedText)
       IN  IF normalizedText = <<>>
           THEN /\ pc' = "done"
                /\ UNCHANGED <<maxChars, remaining, chunkNumber, chunks>>
           ELSE IF FitsOneChunk(totalTokens, targetTokens)
           THEN /\ chunks' = << [chunk |-> 1, text |-> normalizedText,
                                 approx_tokens |-> totalTokens] >>
                /\ pc' = "done"
                /\ UNCHANGED <<maxChars, remaining, chunkNumber>>
           ELSE /\ maxChars' = MaxCharsOf(normalizedText, totalTokens, targetTokens)
                /\ remaining' = normalizedText
                /\ chunkNumber' = 1
                /\ pc' = "loop"
                /\ UNCHANGED chunks
    /\ UNCHANGED <<text, targetTokens>>
    /\ UNCHANGED <<cleanVars, outVars>>

\* one iteration of while (remaining.length > 0)
ChunkLoop ==
    /\ pc = "loop"
    /\ Len(remaining) > 0
    /\ LET chunkTxt == ChunkSlice(remaining, maxChars)
       IN  /\ remaining' = RestSlice(remaining, maxChars)
           /\ chunks' = PushChunk(chunks, chunkNumber, chunkTxt)
           /\ chunkNumber' = NextNumber(chunkNumber, chunkTxt)
    /\ UNCHANGED <<text, targetTokens, pc, maxChars>>
    /\ UNCHANGED <<cleanVars, outVars>>

\* the loop condition fails: return chunks
ChunkReturn ==
    /\ pc = "loop"
    /\ Len(remaining) = 0
    /\ pc' = "done"
    /\ UNCHANGED <<text, targetTokens, maxChars, remaining, chunkNumber, chunks>>
    /\ UNCHANGED <<cleanVars, outVars>>

Init ==
    /\ text \in Texts
    /\ targetTokens \in 1..MaxTarget
    /\ pc = "start"
    /\ maxChars = 0
    /\ remaining = <<>>
    /\ chunkNumber = 1
    /\ chunks = <<>>
    /\ doc = <<>>
    /\ open = 0
    /\ elements = <<>>
    /\ cpc = "idle"
    /\ UnwrapIdle /\ RenderIdle /\ JsonIdle /\ PageIdle

Next == ChunkStart \/ ChunkLoop \/ ChunkReturn

Spec == Init /\ [][Next]_vars

(***************************************************************************)
(* The document tree handed to the element extractor.  A node is a text    *)
(* node (tag "#text", its characters in data) or an element (its tag, one  *)
(* attribute that the selectors of the cleaner look at, its child nodes).  *)
(***************************************************************************)
TextNode(d) == [tag |-> "#text", attr |-> "", data |-> d, kids |-> <<>>]

Elem(t, a, k) == [tag |-> t, attr |-> a, data |-> <<>>, kids |-> k]

REMOVE_TAGS ==
    {"script", "style", "noscript", "iframe", "svg", "canvas",
     "link", "meta", "head", "template", "object", "embed",
     "applet", "audio", "video", "source", "track", "map", "area"}

\* the attribute values that one of NOISE_SELECTORS matches
NOISE_ATTRS ==
    {"class=sidebar", "id=sidebar", "role=navigation", "role=complementary",
     "class=ad", "class=ads", "class=advertisement", "class=sponsored",
     "class=promo", "class=cookie", "class=cookie-banner",
     "class=cookie-notice", "class=consent", "class=popup", "class=modal",
     "class=overlay", "class=social-share", "class=share-buttons",
     "hidden", "aria-hidden=true", "class=hidden", "class=sr-only",
     "class=visually-hidden", "class=screen-reader-text"}

\* the inline styles removeNoiseElements looks for
HIDDEN_STYLES ==
    {"style=display:none", "style=display: none",
     "style=visibility:hidden", "style=visibility: hidden"}

BLOCK_ELEMENTS ==
    {"p", "div", "section", "article", "main", "blockquote",
     "h1", "h2", "h3", "h4", "h5", "h6",
     "ul", "ol", "li", "dl", "dt", "dd",
     "table", "tr", "th", "td",
     "pre", "code", "figure", "figcaption",
     "address", "hr", "br"}

HEADING_LEVEL == [h1 |-> 1, h2 |-> 2, h3 |-> 3, h4 |-> 4, h5 |-> 5, h6 |-> 6]

\* 'main, article, [role="main"], #content, .content, #main, .main, .post,
\*  .article, .entry-content, .post-content'
MatchesMainSelector(n) ==
    \/ n.tag \in {"main", "article"}
    \/ n.attr \in {"role=main", "id=content", "class=content", "id=main",
                   "class=main", "class=post", "class=article",
                   "class=entry-content", "class=post-content"}

\* the nodes of a forest without those that `doomed` holds of, subtrees
\* included: what is left after el.remove() on each of them
RECURSIVE RemoveAll(_, _)
RemoveAll(f, doomed) ==
    IF f = <<>> THEN <<>>
    ELSE LET n == Head(f)
         IN  IF n.tag \in doomed.tags \/ n.attr \in doomed.attrs
             THEN RemoveAll(Tail(f), doomed)
             ELSE <<[n EXCEPT !.kids = RemoveAll(n.kids, doomed)]>>
                      \o RemoveAll(Tail(f), doomed)

\* a variant of removeUnwantedElements that removes nothing
removeUnwantedElementsNone(f) == f

removeUnwantedElements(f) ==
    RemoveAll(f, [tags |-> REMOVE_TAGS, attrs |-> {}])

removeNoiseElements(f) ==
    RemoveAll(RemoveAll(f, [tags |-> {}, attrs |-> NOISE_ATTRS]),
              [tags |-> {}, attrs |-> HIDDEN_STYLES])

\* Node.textContent of the nodes of a forest, in document order
RECURSIVE textContent(_)
textContent(f) ==
    IF f = <<>> THEN <<>>
    ELSE (IF Head(f).tag = "#text" THEN Head(f).data
          ELSE textContent(Head(f).kids)) \o textContent(Tail(f))

\* s.replace(/[class]+/g, ' '): every maximal run of characters of the class
\* becomes one space
RECURSIVE ReplaceRuns(_, _)
ReplaceRuns(s, class) ==
    IF s = <<>> THEN <<>>
    ELSE IF Head(s) \in class
         THEN IF Len(s) > 1 /\ s[2] \in class
              THEN ReplaceRuns(Tail(s), class)
              ELSE <<" ">> \o ReplaceRuns(Tail(s), class)
         ELSE <<Head(s)>> \o ReplaceRuns(Tail(s), class)

normalizeWhitespace(s) ==
    Trim(ReplaceRuns(ReplaceRuns(s, {"\r", "\n", "\t"}),
                     {" ", "\n", "\t", "\r"}))

getTextContent(el) ==
    normalizeWhitespace(
        textContent(RemoveAll(el.kids,
            [tags |-> {"script", "style", "noscript"}, attrs |-> {}])))

\* an ExtractedElement; level 0 and listType "" stand for an absent field
Extracted(t, c, lv, lt) ==
    [type |-> t, content |-> c, level |-> lv, listType |-> lt]

PushIfContent(elems, t, c, lv, lt) ==
    IF c # <<>> THEN Append(elems, Extracted(t, c, lv, lt)) ELSE elems

\* after the children of a default element: a break behind a block element
BlockBreak(elems, tagName) ==
    IF /\ tagName \in BLOCK_ELEMENTS
       /\ Len(elems) > 0
       /\ elems[Len(elems)].type # "break"
    THEN Append(elems, Extracted("break", <<>>, 0, ""))
    ELSE elems

\* processNode(node, context): the elements array after the call.  Every
\* node reached from the root is connected, so the isConnected test passes.
\* a variant that takes every list for an unordered one
listTypeUnordered(tagName) == "unordered"

\* const listType = tagName === 'ol' ? 'ordered' : 'unordered'
listType(tagName) == IF tagName = "ol" THEN "ordered" ELSE "unordered"

RECURSIVE processNode(_, _, _)
RECURSIVE processChildren(_, _, _, _)
processNode(node, inList, elems) ==
    LET tagName == node.tag
    IN  CASE tagName = "#text" ->
                 PushIfContent(elems, "text", normalizeWhitespace(node.data), 0, "")
          [] tagName \in DOMAIN HEADING_LEVEL ->
                 PushIfContent(elems, "heading", getTextContent(node),
                               HEADING_LEVEL[tagName], "")
          [] tagName = "p" ->
                 PushIfContent(elems, "paragraph", getTextContent(node), 0, "")
          [] tagName = "blockquote" ->
                 PushIfContent(elems, "blockquote", getTextContent(node), 0, "")
          [] tagName \in {"pre", "code"} ->
                 PushIfContent(elems, "code", Trim(textContent(node.kids)), 0, "")
          [] tagName \in {"ul", "ol"} ->
                 processChildren(node.kids, listType(tagName), elems, TRUE)
          [] tagName = "li" ->
                 PushIfContent(elems, "list-item", getTextContent(node), 0,
                               IF inList # "" THEN inList ELSE "unordered")
          [] tagName = "br" -> Append(elems, Extracted("break", <<>>, 0, ""))
          [] tagName = "hr" ->
                 Append(elems, Extracted("break", <<"-", "-", "-">>, 0, ""))
          [] OTHER ->
                 BlockBreak(processChildren(node.kids, inList, elems, FALSE),
                            tagName)

\* forEach over el.children (elementsOnly) or el.childNodes
processChildren(kids, inList, elems, elementsOnly) ==
    IF kids = <<>> THEN elems
    ELSE processChildren(Tail(kids), inList,
                         IF elementsOnly /\ Head(kids).tag = "#text"
                         THEN elems
                         ELSE processNode(Head(kids), inList, elems),
                         elementsOnly)

RECURSIVE ConsolidateLoopNoSkip(_, _, _)
ConsolidateLoopNoSkip(elems, i, result) ==
    IF i > Len(elems) THEN result
    ELSE LET el == elems[i]
             lastType == IF result = <<>> THEN "" ELSE result[Len(result)].type
         IN  IF el.content = <<>> /\ el.type # "break"
             THEN ConsolidateLoopNoSkip(elems, i + 1, result)
             ELSE IF el.type = "text" /\ lastType = "text"
             THEN ConsolidateLoopNoSkip(elems, i + 1,
                      [result EXCEPT ![Len(result)].content =
                                         @ \o <<" ">> \o el.content])
             ELSE ConsolidateLoopNoSkip(elems, i + 1, Append(result, el))

\* a variant of the loop that pushes a text behind a text
RECURSIVE ConsolidateLoopNoMerge(_, _, _)
ConsolidateLoopNoMerge(elems, i, result) ==
    IF i > Len(elems) THEN result
    ELSE LET el == elems[i]
             lastType == IF result = <<>> THEN "" ELSE result[Len(result)].type
         IN  IF el.content = <<>> /\ el.type # "break"
             THEN ConsolidateLoopNoMerge(elems, i + 1, result)
             ELSE IF el.type = "break" /\ lastType = "break"
             THEN ConsolidateLoopNoMerge(elems, i + 1, result)
             ELSE ConsolidateLoopNoMerge(elems, i + 1, Append(result, el))

\* the for loop of consolidateElements over elems[i..]
RECURSIVE ConsolidateLoop(_, _, _)
ConsolidateLoop(elems, i, result) ==
    IF i > Len(elems) THEN result
    ELSE LET el == elems[i]
             lastType == IF result = <<>> THEN "" ELSE result[Len(result)].type
         IN  IF el.content = <<>> /\ el.type # "break"
             THEN ConsolidateLoop(elems, i + 1, result)
             ELSE IF el.type = "break" /\ lastType = "break"
             THEN ConsolidateLoop(elems, i + 1, result)
             ELSE IF el.type = "text" /\ lastType = "text"
             THEN ConsolidateLoop(elems, i + 1,
                      [result EXCEPT ![Len(result)].content =
                                         @ \o <<" ">> \o el.content])
             ELSE ConsolidateLoop(elems, i + 1, Append(result, el))

\* while (result.length && result[0].type === 'break') result.shift()
RECURSIVE ShiftBreaks(_)
ShiftBreaks(result) ==
    IF result # <<>> /\ result[1].type = "break"
    THEN ShiftBreaks(Tail(result)) ELSE result

\* while (result.length && result[result.length - 1].type === 'break') result.pop()
RECURSIVE PopBreaks(_)
PopBreaks(result) ==
    IF result # <<>> /\ result[Len(result)].type = "break"
    THEN PopBreaks(SubSeq(result, 1, Len(result) - 1)) ELSE result

consolidateElements(elems) ==
    PopBreaks(ShiftBreaks(ConsolidateLoop(elems, 1, <<>>)))

extractElements(root) == consolidateElements(processNode(root, "", <<>>))

\* doc.querySelector(sel): the first element in document order that matches,
\* NoNode when there is none
NoNode == [tag |-> "#none", attr |-> "", data |-> <<>>, kids |-> <<>>]

RECURSIVE FirstMatch(_)
FirstMatch(f) ==
    IF f = <<>> THEN NoNode
    ELSE IF Head(f).tag # "#text" /\ MatchesMainSelector(Head(f)) THEN Head(f)
    ELSE LET below == FirstMatch(Head(f).kids)
         IN  IF below # NoNode THEN below ELSE FirstMatch(Tail(f))

\* fallbackText.split(/\n+/): the pieces between maximal runs of newlines
RECURSIVE SplitLines(_, _, _)
SplitLines(s, cur, acc) ==
    IF s = <<>> THEN Append(acc, cur)
    ELSE IF Head(s) = "\n"
         THEN IF Len(s) > 1 /\ s[2] = "\n"
              THEN SplitLines(Tail(s), cur, acc)
              ELSE SplitLines(Tail(s), <<>>, Append(acc, cur))
         ELSE SplitLines(Tail(s), Append(cur, Head(s)), acc)

FALLBACK_MIN_TEXT == 50
FALLBACK_MIN_LINE == 10

\* lines.map(line => ({type: 'paragraph', content: line.trim()}))
RECURSIVE LinesToParagraphs(_)
LinesToParagraphs(ls) ==
    IF ls = <<>> THEN <<>>
    ELSE <<Extracted("paragraph", Trim(Head(ls)), 0, "")>>
             \o LinesToParagraphs(Tail(ls))

\* the fallback of parseAndClean for an empty extraction
fallbackElements(body) ==
    LET fallbackText == Trim(textContent(body.kids))
    IN  IF Len(fallbackText) > FALLBACK_MIN_TEXT
        THEN LinesToParagraphs(
                 SelectSeq(SplitLines(fallbackText, <<>>, <<>>),
                           LAMBDA line : Len(Trim(line)) > FALLBACK_MIN_LINE))
        ELSE <<>>

(***************************************************************************)
(* parseAndClean, statement by statement.  doc is the <body> element of    *)
(* the parsed document (DOMParser always builds one for text/html).        *)
(***************************************************************************)
\* removeUnwantedElements(doc)
CleanRemoveUnwanted ==
    /\ cpc = "parsed"
    /\ doc' = [doc EXCEPT !.kids = removeUnwantedElements(doc.kids)]
    /\ cpc' = "stripped"
    /\ UNCHANGED <<open, elements>>
    /\ UNCHANGED <<chunkVars, outVars>>

\* removeNoiseElements(doc)
CleanRemoveNoise ==
    /\ cpc = "stripped"
    /\ doc' = [doc EXCEPT !.kids = removeNoiseElements(doc.kids)]
    /\ cpc' = "denoised"
    /\ UNCHANGED <<open, elements>>
    /\ UNCHANGED <<chunkVars, outVars>>

\* const body = mainContent || doc.body; let elements = extractElements(body)
CleanExtract ==
    /\ cpc = "denoised"
    /\ LET mainContent == FirstMatch(doc.kids)
           body == IF mainContent # NoNode THEN mainContent ELSE doc
       IN  elements' = extractElements(body)
    /\ cpc' = "extracted"
    /\ UNCHANGED <<doc, open>>
    /\ UNCHANGED <<chunkVars, outVars>>

\* the fallback, and return elements
CleanReturn ==
    /\ cpc = "extracted"
    /\ elements' = IF Len(elements) = 0 THEN fallbackElements(doc) ELSE elements
    /\ cpc' = "done"
    /\ UNCHANGED <<doc, open>>
    /\ UNCHANGED <<chunkVars, outVars>>

CleanNext ==
    CleanRemoveUnwanted \/ CleanRemoveNoise \/ CleanExtract \/ CleanReturn

(***************************************************************************)
(* parser.parseFromString(cleanHtml, 'text/html'): the tree builder of the *)
(* HTML parser, one node at a time in document order.  `open` is the       *)
(* number of open elements below <body>; a new node becomes the last child *)
(* of the innermost open element.  The documents are those of at most      *)
(* MaxNodes nodes over a set of node labels.                               *)
(***************************************************************************)
MaxNodes == 4

\* 58 characters in three lines of 40, 5 and 11
LongText ==
    [i \in 1..58 |-> IF i \in {41, 47} THEN "\n" ELSE "x"]

\* the labels of the documents of SpecClean: the text data, the void tags,
\* the <<tag, attribute>> pairs of the elements that can have children
CleanLabels ==
    [texts |-> {<<"x">>, <<" ">>, LongText},
     voids |-> {"br", "hr"},
     boxes |-> {<<"div", "">>, <<"span", "">>, <<"p", "">>, <<"main", "">>,
                <<"script", "">>, <<"div", "class=ad">>}]

RECURSIVE NodeCount(_)
NodeCount(f) ==
    IF f = <<>> THEN 0
    ELSE 1 + NodeCount(Head(f).kids) + NodeCount(Tail(f))

\* the tags of the open elements, outermost first
RECURSIVE OpenTags(_, _)
OpenTags(f, depth) ==
    IF depth = 0 THEN <<>>
    ELSE <<f[Len(f)].tag>> \o OpenTags(f[Len(f)].kids, depth - 1)

\* the child nodes of the innermost open element
RECURSIVE OpenKids(_, _)
OpenKids(f, depth) ==
    IF depth = 0 THEN f ELSE OpenKids(f[Len(f)].kids, depth - 1)

RECURSIVE InsertNode(_, _, _)
InsertNode(f, depth, node) ==
    IF depth = 0 THEN Append(f, node)
    ELSE [f EXCEPT ![Len(f)].kids = InsertNode(@, depth - 1, node)]

\* tags whose start tag closes an open p element
CLOSES_P ==
    {"p", "div", "section", "article", "main", "blockquote",
     "h1", "h2", "h3", "h4", "h5", "h6", "ul", "ol", "li", "dl", "dt", "dd",
     "pre", "figure", "figcaption", "address", "hr", "table"}

\* elements at which the search for an open li to close stops
LI_SCOPE == {"ul", "ol", "blockquote", "pre", "main", "article", "section",
             "h1", "h2", "h3", "h4", "h5", "h6", "table", "td", "th"}

\* an li is open with no LI_SCOPE element opened after it
RECURSIVE LiOpen(_)
LiOpen(tags) ==
    IF tags = <<>> THEN FALSE
    ELSE IF tags[Len(tags)] = "li" THEN TRUE
    ELSE IF tags[Len(tags)] \in LI_SCOPE THEN FALSE
    ELSE LiOpen(SubSeq(tags, 1, Len(tags) - 1))

\* the tree builder can put a node of this tag where the next node goes:
\* character data is appended to a preceding text node, script and style
\* hold text only, and a start tag that closes an open p, li or heading
\* does not nest in it
CanInsert(tag) ==
    LET tags == OpenTags(doc.kids, open)
        kids == OpenKids(doc.kids, open)
        parent == IF tags = <<>> THEN "body" ELSE tags[Len(tags)]
    IN  /\ tag = "#text" =>
               (IF kids = <<>> THEN TRUE ELSE kids[Len(kids)].tag # "#text")
        /\ parent \in {"script", "style"} => tag = "#text"
        /\ (\E i \in DOMAIN tags : tags[i] = "p") => tag \notin CLOSES_P
        /\ tag = "li" => ~LiOpen(tags)
        /\ parent \in DOMAIN HEADING_LEVEL => tag \notin DOMAIN HEADING_LEVEL

\* character data
ParseText(L) ==
    /\ cpc = "parsing"
    /\ NodeCount(doc.kids) < MaxNodes
    /\ CanInsert("#text")
    /\ \E d \in L.texts :
           doc' = [doc EXCEPT !.kids = InsertNode(@, open, TextNode(d))]
    /\ UNCHANGED <<open, cpc, elements>>
    /\ UNCHANGED <<chunkVars, outVars>>

\* the start tag of a void element
ParseVoid(L) ==
    /\ cpc = "parsing"
    /\ NodeCount(doc.kids) < MaxNodes
    /\ \E t \in L.voids :
        /\ CanInsert(t)
        /\ doc' = [doc EXCEPT !.kids = InsertNode(@, open, Elem(t, "", <<>>))]
    /\ UNCHANGED <<open, cpc, elements>>
    /\ UNCHANGED <<chunkVars, outVars>>

\* a start tag: the element is inserted and becomes the innermost open one
ParseStartTag(L) ==
    /\ cpc = "parsing"
    /\ NodeCount(doc.kids) < MaxNodes
    /\ \E b \in L.boxes :
        /\ CanInsert(b[1])
        /\ doc' = [doc EXCEPT !.kids = InsertNode(@, open, Elem(b[1], b[2], <<>>))]
    /\ open' = open + 1
    /\ UNCHANGED <<cpc, elements>>
    /\ UNCHANGED <<chunkVars, outVars>>

\* an end tag closes the innermost open element
ParseEndTag ==
    /\ cpc = "parsing"
    /\ open > 0
    /\ open' = open - 1
    /\ UNCHANGED <<doc, cpc, elements>>
    /\ UNCHANGED <<chunkVars, outVars>>

\* end of input: every open element is closed
ParseEnd ==
    /\ cpc = "parsing"
    /\ open' = 0
    /\ cpc' = "parsed"
    /\ UNCHANGED <<doc, elements>>
    /\ UNCHANGED <<chunkVars, outVars>>

CleanInit ==
    /\ doc = Elem("body", "", <<>>)
    /\ open = 0
    /\ elements = <<>>
    /\ cpc = "parsing"
    /\ text = <<>>
    /\ targetTokens = 1
    /\ pc = "idle"
    /\ maxChars = 0
    /\ remaining = <<>>
    /\ chunkNumber = 1
    /\ chunks = <<>>
    /\ UnwrapIdle /\ RenderIdle /\ JsonIdle /\ PageIdle

SpecClean ==
    CleanInit /\ [][ParseText(CleanLabels) \/ ParseVoid(CleanLabels)
                     \/ ParseStartTag(CleanLabels) \/ ParseEndTag \/ ParseEnd
                     \/ CleanNext]_vars

(***************************************************************************)
(* Vocabulary of the properties                                            *)
(***************************************************************************)
Returned == pc = "done"

\* the chunk texts one after the other, and joined by single spaces
RECURSIVE ConcatTexts(_)
ConcatTexts(cs) ==
    IF cs = <<>> THEN <<>> ELSE Head(cs).text \o ConcatTexts(Tail(cs))

RECURSIVE JoinSpace(_)
JoinSpace(cs) ==
    IF cs = <<>> THEN <<>>
    ELSE IF Len(cs) = 1 THEN cs[1].text
    ELSE cs[1].text \o <<" ">> \o JoinSpace(Tail(cs))

\* the non-whitespace characters of s, in order
StripWs(s) == SelectSeq(s, LAMBDA c : ~IsSpace(c))

\* s with every whitespace run collapsed to one space, trimmed
RECURSIVE CollapseRuns(_)
CollapseRuns(s) ==
    IF s = <<>> THEN <<>>
    ELSE IF IsSpace(Head(s))
         THEN IF Len(s) > 1 /\ IsSpace(s[2])
              THEN CollapseRuns(Tail(s))
              ELSE <<" ">> \o CollapseRuns(Tail(s))
         ELSE <<Head(s)>> \o CollapseRuns(Tail(s))

NormalizeWs(s) == CollapseRuns(Trim(s))

\* W: the number of maximal runs of non-whitespace characters of s
WordStarts(s) ==
    Cardinality({i \in DOMAIN s :
                    ~IsSpace(s[i]) /\ (i = 1 \/ IsSpace(s[i - 1]))})

\* S: the number of characters that are neither \w nor \s
Specials(s) ==
    Cardinality({i \in DOMAIN s : ~IsSpace(s[i]) /\ ~IsWordChar(s[i])})

\* the least integer n with n >= x / 10, for x >= 0
CeilOfTenths(x) == CHOOSE n \in 0..x : 10 * n >= x /\ 10 * (n - 1) < x

SentencePunct == {".", "!", "?"}

\* the position in the trimmed input right after the last character of
\* chunk i: the shortest prefix holding the non-whitespace characters of
\* chunks 1..i
EndOfChunk(i) ==
    LET nt == Trim(text)
        upto == StripWs(ConcatTexts(SubSeq(chunks, 1, i)))
    IN  SetMin({p \in 0..Len(nt) : StripWs(SubSeq(nt, 1, p)) = upto})

\* chunk i is followed in the input by a whitespace run holding a newline
FollowedByNewline(i) ==
    LET nt == Trim(text)
        p == EndOfChunk(i)
    IN  \E j \in (p + 1)..Len(nt) :
            /\ nt[j] = "\n"
            /\ \A k \in (p + 1)..j : IsSpace(nt[k])

(***************************************************************************)
(* C1: the element sequence returned by parseAndClean holds no two         *)
(* consecutive break elements and neither starts nor ends with a break.    *)
(***************************************************************************)
C1_NoRedundantBreaks ==
    cpc = "done" =>
        /\ \A i \in 1..(Len(elements) - 1) :
               ~(elements[i].type = "break" /\ elements[i + 1].type = "break")
        /\ elements # <<>> =>
               /\ elements[1].type # "break"
               /\ elements[Len(elements)].type # "break"

\* what processNode emitted for the content root of the cleaned document
RawElements ==
    LET mainContent == FirstMatch(doc.kids)
    IN  processNode(IF mainContent # NoNode THEN mainContent ELSE doc, "", <<>>)

\* the traversal emitted two breaks in a row, and one break is left between
\* two elements of the result
C1_Witness ==
    /\ cpc = "done"
    /\ \E i \in 1..(Len(RawElements) - 1) :
           RawElements[i].type = "break" /\ RawElements[i + 1].type = "break"
    /\ \E j \in DOMAIN elements : elements[j].type = "break"

(***************************************************************************)
(* C2: when chunkText returns, its chunks are numbered 1, 2, ..., n in     *)
(* order without gap or repeat, and no chunk has empty text.               *)
(***************************************************************************)
C2_ChunksNumbered ==
    Returned =>
        \A i \in DOMAIN chunks :
            chunks[i].chunk = i /\ chunks[i].text # <<>>

C2_Witness == Returned /\ Len(chunks) >= 3

(***************************************************************************)
(* C3, as stated: whenever estimateTokens(text) <= targetTokens * 1.2,     *)
(* chunkText returns exactly one chunk, numbered 1, holding the trimmed    *)
(* input.  It fails for the empty and the all-whitespace text, whose       *)
(* estimate is 0 and for which chunkText returns no chunk.                 *)
(***************************************************************************)
C3_Original ==
    (Returned /\ 10 * estimateTokens(text) <= 12 * targetTokens) =>
        /\ Len(chunks) = 1
        /\ chunks[1].chunk = 1
        /\ chunks[1].text = Trim(text)

(***************************************************************************)
(* C3, amended: for every text that is not empty after trimming, if        *)
(* estimateTokens(text) <= targetTokens * 1.2 then chunkText returns       *)
(* without entering the splitting loop, with exactly one chunk, numbered   *)
(* 1, whose text is the trimmed input.                                     *)
(***************************************************************************)
C3_SingleChunk ==
    (Trim(text) # <<>> /\ 10 * estimateTokens(text) <= 12 * targetTokens) =>
        /\ pc # "loop"
        /\ Returned =>
            /\ Len(chunks) = 1
            /\ chunks[1].chunk = 1
            /\ chunks[1].text = Trim(text)

\* a single chunk returned for an estimate above targetTokens, at the edge
\* of the 1.2 allowance
C3_Witness ==
    /\ Returned
    /\ Len(chunks) = 1
    /\ estimateTokens(text) > targetTokens
    /\ 10 * estimateTokens(text) = 12 * targetTokens

(***************************************************************************)
(* C4: for a text that is not blank, the chunk texts joined by single      *)
(* spaces give the whitespace-normalized input.  Both sides are            *)
(* normalized here, which the literal statement implies.                   *)
(***************************************************************************)
C4_JoinReconstructs ==
    (Returned /\ Trim(text) # <<>>) =>
        NormalizeWs(JoinSpace(chunks)) = NormalizeWs(text)

(***************************************************************************)
(* C5: the non-whitespace characters of the returned chunk texts, read in  *)
(* chunk order, are exactly those of the input, in the input's order.      *)
(***************************************************************************)
C5_ContentPreserved ==
    Returned => StripWs(ConcatTexts(chunks)) = StripWs(text)

C5_Witness ==
    /\ Returned
    /\ Len(chunks) >= 2
    /\ Len(ConcatTexts(chunks)) < Len(Trim(text))

(***************************************************************************)
(* C6: when the text is split into several chunks, every chunk but the     *)
(* last ends with a sentence-ending punctuation mark or is followed in     *)
(* the input by a line or paragraph break.                                 *)
(***************************************************************************)
C6_NeverMidSentence ==
    (Returned /\ Len(chunks) > 1) =>
        \A i \in 1..(Len(chunks) - 1) :
            \/ chunks[i].text[Len(chunks[i].text)] \in SentencePunct
            \/ FollowedByNewline(i)

(***************************************************************************)
(* C7: when the text is split into several chunks, every chunk's           *)
(* approx_tokens is at most 1.2 * targetTokens and every chunk but the     *)
(* last has at least 0.8 * targetTokens.                                   *)
(***************************************************************************)
C7_TokenBand ==
    (Returned /\ Len(chunks) > 1) =>
        \A i \in DOMAIN chunks :
            /\ 10 * chunks[i].approx_tokens <= 12 * targetTokens
            /\ i < Len(chunks) =>
                   10 * chunks[i].approx_tokens >= 8 * targetTokens

(***************************************************************************)
(* C8: chunkText terminates: in every state it has returned or it can     *)
(* take a step that changes its state.  chunkText is deterministic, so a   *)
(* state in which its only step leaves everything as it is repeats for     *)
(* ever.                                                                   *)
(***************************************************************************)
C8_Terminates == Returned \/ ENABLED <<Next>>_vars

(***************************************************************************)
(* C9: estimateTokens(text) = ceil(1.3 * W + 0.5 * S), W the number of     *)
(* whitespace-delimited words and S the number of characters that are      *)
(* neither \w nor whitespace; 0 for the empty string, never negative.      *)
(* approx_tokens of a single returned chunk is that number.                *)
(***************************************************************************)
C9_EstimateFormula ==
    /\ estimateTokens(text) =
           CeilOfTenths(13 * WordStarts(text) + 5 * Specials(text))
    /\ estimateTokens(text) >= 0
    /\ text = <<>> => estimateTokens(text) = 0
    /\ (Returned /\ Len(chunks) = 1) =>
           chunks[1].approx_tokens =
               CeilOfTenths(13 * WordStarts(text) + 5 * Specials(text))

C9_Witness ==
    /\ Returned
    /\ Len(chunks) = 1
    /\ Len(text) > 0 /\ IsSpace(text[1]) /\ IsSpace(text[Len(text)])
    /\ WordStarts(text) >= 2
    /\ Specials(text) >= 1

(***************************************************************************)
(* C10: estimateTokens is monotone under concatenation: however the text   *)
(* is cut into a and b, estimateTokens(a + b) is at least                  *)
(* estimateTokens(a) and at least estimateTokens(b).                       *)
(***************************************************************************)
C10_Monotone ==
    \A k \in 0..Len(text) :
        /\ estimateTokens(text) >= estimateTokens(SubSeq(text, 1, k))
        /\ estimateTokens(text) >= estimateTokens(SubSeq(text, k + 1, Len(text)))

\* a cut inside a word: the two parts have more words than the whole
C10_Witness ==
    /\ pc # "start"
    /\ \E k \in 1..(Len(text) - 1) :
        /\ ~IsSpace(text[k]) /\ ~IsSpace(text[k + 1])
        /\ WordStarts(SubSeq(text, 1, k))
             + WordStarts(SubSeq(text, k + 1, Len(text))) > WordStarts(text)
        /\ Specials(text) >= 1

(***************************************************************************)
(* The renderers toPlainText and toMarkdown (src/src/fetcher.ts).  `lines` *)
(* is the array of lines of the source; a line is a string.  Characters    *)
(* outside ASCII are written by their code point, "U+00E2" for instance.   *)
(***************************************************************************)
LOWER == <<"a", "b", "c", "d", "e", "f", "g", "h", "i", "j", "k", "l", "m",
           "n", "o", "p", "q", "r", "s", "t", "u", "v", "w", "x", "y", "z">>
UPPER == <<"A", "B", "C", "D", "E", "F", "G", "H", "I", "J", "K", "L", "M",
           "N", "O", "P", "Q", "R", "S", "T", "U", "V", "W", "X", "Y", "Z">>
DIGITS == <<"0", "1", "2", "3", "4", "5", "6", "7", "8", "9">>

\* the index of c in the sequence t, 0 when c is not in it
IndexIn(t, c) ==
    IF \E i \in DOMAIN t : t[i] = c
    THEN CHOOSE i \in DOMAIN t : t[i] = c ELSE 0

\* String.prototype.toUpperCase, on the letters a-z
RECURSIVE toUpperCase(_)
toUpperCase(s) ==
    IF s = <<>> THEN <<>>
    ELSE <<IF IndexIn(LOWER, Head(s)) > 0 THEN UPPER[IndexIn(LOWER, Head(s))]
           ELSE Head(s)>> \o toUpperCase(Tail(s))

\* '#'.repeat(n)
RECURSIVE Repeat(_, _)
Repeat(c, n) == IF n <= 0 THEN <<>> ELSE <<c>> \o Repeat(c, n - 1)

\* `${n}` for an integer n >= 0
RECURSIVE NumberToString(_)
NumberToString(n) ==
    IF n < 10 THEN <<DIGITS[n + 1]>>
    ELSE NumberToString(n \div 10) \o <<DIGITS[(n % 10) + 1]>>

\* lines.join('\n')
RECURSIVE JoinLines(_)
JoinLines(lines) ==
    IF lines = <<>> THEN <<>>
    ELSE IF Len(lines) = 1 THEN lines[1]
    ELSE lines[1] \o <<"\n">> \o JoinLines(Tail(lines))

\* the length of the run of newlines of s that starts at index i
RECURSIVE NewlineRun(_, _)
NewlineRun(s, i) ==
    IF i <= Len(s) /\ s[i] = "\n" THEN 1 + NewlineRun(s, i + 1) ELSE 0

\* s.replace(/\n{3,}/g, '\n\n'), from index i on
RECURSIVE CollapseNewlines(_, _)
CollapseNewlines(s, i) ==
    IF i > Len(s) THEN <<>>
    ELSE IF s[i] = "\n"
         THEN LET n == NewlineRun(s, i)
              IN  (IF n >= 3 THEN <<"\n", "\n">> ELSE SubSeq(s, i, i + n - 1))
                      \o CollapseNewlines(s, i + n)
         ELSE <<s[i]>> \o CollapseNewlines(s, i + 1)

\* a variant that returns the joined lines as they are
RenderFinishRaw(lines) == JoinLines(lines)

\* return lines.join('\n').replace(/\n{3,}/g, '\n\n').trim()
RenderFinish(lines) == Trim(CollapseNewlines(JoinLines(lines), 1))

RULE_MARK == <<"-", "-", "-">>

\* the literal of the list-item case of toPlainText: the three characters
\* U+00E2, U+20AC, U+00A2 and a space
PLAIN_BULLET == <<"U+00E2", "U+20AC", "U+00A2", " ">>

\* the fence line of a code block: three backticks, U+0060
CODE_FENCE == <<"U+0060", "U+0060", "U+0060">>

\* case 'break' with the '---' content, the same in both renderers
PushRule(lines) == lines \o << <<>>, RULE_MARK, <<>> >>

\* one turn of the loop of toPlainText
PlainStep(lines, el) ==
    CASE el.type = "heading" ->
             (IF Len(lines) > 0 THEN Append(lines, <<>>) ELSE lines)
                 \o << toUpperCase(el.content), <<>> >>
      [] el.type \in {"paragraph", "text"} -> Append(lines, el.content)
      [] el.type = "blockquote" ->
             Append(lines, <<"\"">> \o el.content \o <<"\"">>)
      [] el.type = "code" -> Append(lines, el.content)
      [] el.type = "list-item" -> Append(lines, PLAIN_BULLET \o el.content)
      [] el.type = "break" ->
             IF el.content = RULE_MARK THEN PushRule(lines)
             ELSE IF Len(lines) > 0 /\ lines[Len(lines)] # <<>>
                  THEN Append(lines, <<>>)
                  ELSE lines
      [] OTHER -> lines

RECURSIVE PlainLoop(_, _, _)
PlainLoop(elems, i, lines) ==
    IF i > Len(elems) THEN lines
    ELSE PlainLoop(elems, i + 1, PlainStep(lines, elems[i]))

toPlainText(elems) == RenderFinish(PlainLoop(elems, 1, <<>>))

\* the locals of toMarkdown before the loop
MdStart == [lines |-> <<>>, inOrderedList |-> FALSE, listCounter |-> 0]

\* a variant of the paragraph case without the empty line behind the content
MdParagraphTight(st, el) ==
    [st EXCEPT !.lines = Append(@, el.content), !.inOrderedList = FALSE]

\* case 'paragraph' / case 'text' of toMarkdown
MdParagraph(st, el) ==
    [st EXCEPT !.lines = @ \o <<el.content, <<>>>>, !.inOrderedList = FALSE]

\* case 'list-item' of toMarkdown
MdListItem(st, el) ==
    IF el.listType = "ordered"
    THEN LET counter == (IF ~st.inOrderedList THEN 0 ELSE st.listCounter) + 1
         IN  [lines |-> Append(st.lines,
                            NumberToString(counter) \o <<".", " ">> \o el.content),
              inOrderedList |-> TRUE,
              listCounter |-> counter]
    ELSE [st EXCEPT !.lines = Append(@, <<"-", " ">> \o el.content),
                    !.inOrderedList = FALSE]

\* case 'break' of toMarkdown
MdBreak(st, el) ==
    [st EXCEPT !.lines = IF el.content = RULE_MARK THEN PushRule(@) ELSE @,
               !.inOrderedList = FALSE]

\* one turn of the loop of toMarkdown
MdStep(st, el) ==
    CASE el.type = "heading" ->
             [st EXCEPT !.lines =
                            (IF Len(@) > 0 THEN Append(@, <<>>) ELSE @)
                                \o << Repeat("#", IF el.level # 0 THEN el.level
                                                   ELSE 1)
                                          \o <<" ">> \o el.content,
                                      <<>> >>,
                        !.inOrderedList = FALSE]
      [] el.type \in {"paragraph", "text"} -> MdParagraph(st, el)
      [] el.type = "blockquote" ->
             [st EXCEPT !.lines = @ \o << <<">", " ">> \o el.content, <<>> >>,
                        !.inOrderedList = FALSE]
      [] el.type = "code" ->
             [st EXCEPT !.lines = @ \o << CODE_FENCE, el.content,
                                          CODE_FENCE, <<>> >>,
                        !.inOrderedList = FALSE]
      [] el.type = "list-item" -> MdListItem(st, el)
      [] el.type = "break" -> MdBreak(st, el)
      [] OTHER -> st

RECURSIVE MdLoop(_, _, _)
MdLoop(elems, i, st) ==
    IF i > Len(elems) THEN st ELSE MdLoop(elems, i + 1, MdStep(st, elems[i]))

toMarkdown(elems) == RenderFinish(MdLoop(elems, 1, MdStart).lines)

(***************************************************************************)
(* Specification of the renderers: toPlainText or toMarkdown applied to an *)
(* element array, either one a caller passes in or the one parseAndClean   *)
(* returns for the example document of the README.                         *)
(***************************************************************************)
MaxElems == 4       \* longest element array passed in by a caller

\* The elements callers pass in: one of every type, both list types, both
\* kinds of break, a heading of level 2 and a code block with a blank run.
RenderElements ==
    { Extracted("heading", <<"x">>, 2, ""),
      Extracted("paragraph", <<"x">>, 0, ""),
      Extracted("text", <<"x">>, 0, ""),
      Extracted("blockquote", <<"x">>, 0, ""),
      Extracted("code", <<"x", "\n", "\n", "\n", "x">>, 0, ""),
      Extracted("list-item", <<"x">>, 0, "ordered"),
      Extracted("list-item", <<"x">>, 0, "unordered"),
      Extracted("break", <<>>, 0, ""),
      Extracted("break", RULE_MARK, 0, "") }

ElementSeqs == UNION {[1..n -> RenderElements] : n \in 0..MaxElems}

\* <h1>Title</h1><p>Hello world.</p><ul><li>A</li><li>B</li></ul>
ExampleBody ==
    Elem("body", "",
         << Elem("h1", "", <<TextNode(<<"T", "i", "t", "l", "e">>)>>),
            Elem("p", "", <<TextNode(<<"H", "e", "l", "l", "o", " ",
                                       "w", "o", "r", "l", "d", ".">>)>>),
            Elem("ul", "", << Elem("li", "", <<TextNode(<<"A">>)>>),
                              Elem("li", "", <<TextNode(<<"B">>)>>) >>) >>)

ChunkIdle ==
    /\ text = <<>>
    /\ targetTokens = 1
    /\ pc = "idle"
    /\ maxChars = 0
    /\ remaining = <<>>
    /\ chunkNumber = 1
    /\ chunks = <<>>

RenderInit ==
    /\ \/ /\ cpc = "idle"
          /\ doc = Elem("body", "", <<>>)
          /\ elements \in ElementSeqs
       \/ /\ cpc = "parsed"
          /\ doc = ExampleBody
          /\ elements = <<>>
    /\ open = 0
    /\ rendered = <<>>
    /\ rpc = "ready"
    /\ ChunkIdle /\ UnwrapIdle /\ JsonIdle /\ PageIdle

\* toPlainText(elements)
ToPlainText ==
    /\ cpc \in {"idle", "done"}
    /\ rpc = "ready"
    /\ rendered' = toPlainText(elements)
    /\ rpc' = "plain"
    /\ UNCHANGED <<chunkVars, cleanVars, unwrapVars, jsonVars, pageVars>>

\* toMarkdown(elements)
ToMarkdown ==
    /\ cpc \in {"idle", "done"}
    /\ rpc = "ready"
    /\ rendered' = toMarkdown(elements)
    /\ rpc' = "markdown"
    /\ UNCHANGED <<chunkVars, cleanVars, unwrapVars, jsonVars, pageVars>>

SpecRender ==
    RenderInit /\ [][CleanNext \/ ToPlainText \/ ToMarkdown]_vars

(***************************************************************************)
(* Vocabulary of the renderer properties                                   *)
(***************************************************************************)
\* the example document has been through parseAndClean
ExampleCleaned == doc = ExampleBody /\ cpc = "done"

\* the bullet U+2022 and a space
BULLET == <<"U+2022", " ">>

HELLO_WORLD == <<"H", "e", "l", "l", "o", " ", "w", "o", "r", "l", "d", ".">>

ExamplePlainText ==
    JoinLines(<< <<"T", "I", "T", "L", "E">>, <<>>, HELLO_WORLD, <<>>,
                 BULLET \o <<"A">>, BULLET \o <<"B">> >>)

ExampleMarkdown ==
    JoinLines(<< <<"#", " ", "T", "i", "t", "l", "e">>, <<>>, HELLO_WORLD, <<>>,
                 <<"-", " ", "A">>, <<"-", " ", "B">> >>)

IsOrderedItem(el) == el.type = "list-item" /\ el.listType = "ordered"

IsPlainBreak(el) == el.type = "break" /\ el.content # RULE_MARK

\* the ordered list-items among elems[j..i], when nothing but ordered
\* list-items and plain breaks lies between j and i
OrderedRunBefore(elems, i) ==
    LET starts == {j \in 1..i : \A k \in j..i :
                       IsOrderedItem(elems[k]) \/ IsPlainBreak(elems[k])}
    IN  Cardinality({k \in SetMin(starts)..i : IsOrderedItem(elems[k])})

\* the numbers the ordered list-items of elems get when a run of ordered
\* list-items and plain breaks is numbered 1, 2, 3, ...
RECURSIVE ConsecutiveNumbers(_, _)
ConsecutiveNumbers(elems, i) ==
    IF i > Len(elems) THEN <<>>
    ELSE (IF IsOrderedItem(elems[i]) THEN <<OrderedRunBefore(elems, i)>>
          ELSE <<>>) \o ConsecutiveNumbers(elems, i + 1)

\* the numbers at the head of the numbered lines of a rendered string
RECURSIVE LeadingNumbers(_)
LeadingNumbers(lines) ==
    IF lines = <<>> THEN <<>>
    ELSE (IF Head(lines) # <<>> /\ IndexIn(DIGITS, Head(lines)[1]) > 0
          THEN <<IndexIn(DIGITS, Head(lines)[1]) - 1>> ELSE <<>>)
             \o LeadingNumbers(Tail(lines))

\* a run of three newlines starts somewhere in s
HasTripleNewline(s) == \E i \in DOMAIN s : NewlineRun(s, i) >= 3

(***************************************************************************)
(* C11: for the example document <h1>Title</h1><p>Hello world.</p>         *)
(* <ul><li>A</li><li>B</li></ul>, extracted as heading, paragraph and two  *)
(* unordered list-items, toPlainText returns the lines TITLE, blank,       *)
(* Hello world., blank, bullet A, bullet B.                                *)
(***************************************************************************)
C11_PlainExample ==
    (ExampleCleaned /\ rpc = "plain") =>
        /\ [i \in DOMAIN elements |-> elements[i].type]
               = <<"heading", "paragraph", "list-item", "list-item">>
        /\ rendered = ExamplePlainText

(***************************************************************************)
(* C12: for the same document toMarkdown returns the lines # Title, blank, *)
(* Hello world., blank, - A, - B.                                          *)
(***************************************************************************)
C12_MarkdownExample ==
    (ExampleCleaned /\ rpc = "markdown") =>
        /\ [i \in DOMAIN elements |-> elements[i].type]
               = <<"heading", "paragraph", "list-item", "list-item">>
        /\ \A i \in {3, 4} : elements[i].listType = "unordered"
        /\ rendered = ExampleMarkdown

C12_Witness == ExampleCleaned /\ rpc = "markdown"

(***************************************************************************)
(* C13: in toMarkdown the ordered-list counter is reset only by an         *)
(* unordered list-item, a heading, a paragraph, a text, a blockquote, a    *)
(* code block or a '---' break; a plain break does not reset it, so the    *)
(* ordered list-items of a run separated only by plain breaks are numbered *)
(* 1, 2, 3, ...                                                            *)
(***************************************************************************)
C13_OrderedNumbering ==
    rpc = "markdown" =>
        LeadingNumbers(SplitLines(rendered, <<>>, <<>>))
            = ConsecutiveNumbers(elements, 1)

(***************************************************************************)
(* C16: the strings toPlainText and toMarkdown return hold no run of three *)
(* or more newlines and no leading or trailing whitespace.                 *)
(***************************************************************************)
C16_CollapsedAndTrimmed ==
    rpc \in {"plain", "markdown"} =>
        /\ ~HasTripleNewline(rendered)
        /\ rendered = <<>> \/ (~IsSpace(rendered[1])
                               /\ ~IsSpace(rendered[Len(rendered)]))

\* a rendering whose joined lines had both a run to collapse and an edge to
\* trim
C16_Witness ==
    /\ rpc = "plain"
    /\ HasTripleNewline(JoinLines(PlainLoop(elements, 1, <<>>)))
    /\ IsSpace(JoinLines(PlainLoop(elements, 1, <<>>))[1])
    /\ rendered # <<>>

(***************************************************************************)
(* Vocabulary of the extractor properties                                  *)
(***************************************************************************)
\* the contents of the elements that have one, joined by single spaces
RECURSIVE JoinContents(_)
JoinContents(elems) ==
    IF elems = <<>> THEN <<>>
    ELSE IF Head(elems).content = <<>> THEN JoinContents(Tail(elems))
    ELSE LET rest == JoinContents(Tail(elems))
         IN  IF rest = <<>> THEN Head(elems).content
             ELSE Head(elems).content \o <<" ">> \o rest

NonBreaks(elems) == SelectSeq(elems, LAMBDA el : el.type # "break")

(***************************************************************************)
(* C15: in every sequence parseAndClean returns no two adjacent elements   *)
(* are both text, a run of adjacent texts being merged into one text with  *)
(* single spaces between the parts, and every element other than a break   *)
(* has non-empty content.                                                  *)
(***************************************************************************)
C15_TextsMerged ==
    cpc = "done" =>
        /\ \A i \in 1..(Len(elements) - 1) :
               ~(elements[i].type = "text" /\ elements[i + 1].type = "text")
        /\ \A i \in DOMAIN elements :
               elements[i].type # "break" => elements[i].content # <<>>
        /\ NonBreaks(RawElements) # <<>> =>
               JoinContents(NonBreaks(elements)) = JoinContents(NonBreaks(RawElements))

\* the traversal emitted two texts in a row, returned as one text
C15_Witness ==
    /\ cpc = "done"
    /\ \E i \in 1..(Len(RawElements) - 1) :
           RawElements[i].type = "text" /\ RawElements[i + 1].type = "text"
    /\ \E j \in DOMAIN elements :
           /\ elements[j].type = "text"
           /\ \E k \in DOMAIN elements[j].content : elements[j].content[k] = " "

(***************************************************************************)
(* Specification of parseAndClean over documents with text inside removed  *)
(* elements and with text in short lines.  Character data written inside   *)
(* an element of REMOVE_TAGS is drawn from the `hidden` labels, whose      *)
(* character "s" occurs in no other label.                                 *)
(***************************************************************************)
\* 53 characters in six lines of 8
ShortLines ==
    [i \in 1..53 |-> IF i % 9 = 0 THEN "\n" ELSE "x"]

HiddenLabels ==
    [texts |-> {<<"x">>, LongText, ShortLines},
     hidden |-> {<<"s">>},
     voids |-> {"br"},
     boxes |-> {<<"script", "">>, <<"p", "">>, <<"pre", "">>, <<"main", "">>}]

\* character data below an open element of REMOVE_TAGS
ParseHiddenText(L) ==
    /\ cpc = "parsing"
    /\ NodeCount(doc.kids) < MaxNodes
    /\ CanInsert("#text")
    /\ LET tags == OpenTags(doc.kids, open)
       IN  \E i \in DOMAIN tags : tags[i] \in REMOVE_TAGS
    /\ \E d \in L.hidden :
           doc' = [doc EXCEPT !.kids = InsertNode(@, open, TextNode(d))]
    /\ UNCHANGED <<open, cpc, elements>>
    /\ UNCHANGED <<chunkVars, outVars>>

\* end of input, the markup read being kept in `html` as the tree it denotes
ParseEndKeep ==
    /\ cpc = "parsing"
    /\ open' = 0
    /\ cpc' = "parsed"
    /\ html' = doc.kids
    /\ UNCHANGED <<doc, elements, cleanHtml, upc>>
    /\ UNCHANGED <<chunkVars, renderVars, jsonVars, pageVars>>

SpecCleanHidden ==
    CleanInit /\ [][ParseText(HiddenLabels) \/ ParseHiddenText(HiddenLabels)
                     \/ ParseVoid(HiddenLabels) \/ ParseStartTag(HiddenLabels)
                     \/ ParseEndTag \/ ParseEndKeep \/ CleanNext]_vars

\* the text of a forest holds a character of the hidden labels
HasHiddenText(f) == \E k \in DOMAIN textContent(f) : textContent(f)[k] = "s"

(***************************************************************************)
(* C14: whenever the document body, after noise removal, holds more than   *)
(* 50 characters of text (after trimming), parseAndClean returns a         *)
(* non-empty element sequence.                                             *)
(***************************************************************************)
C14_NeverSilentlyEmpty ==
    (cpc = "done" /\ Len(Trim(textContent(doc.kids))) > FALLBACK_MIN_TEXT)
        => elements # <<>>

(***************************************************************************)
(* C19: no text that lies inside an element whose tag is in the removal    *)
(* set appears in the content of a returned element, on the structured     *)
(* path and on the fallback path alike.                                    *)
(***************************************************************************)
C19_RemovedTextAbsent ==
    cpc = "done" =>
        \A i \in DOMAIN elements :
            \A k \in DOMAIN elements[i].content : elements[i].content[k] # "s"

\* a document with text in a removed element that lies inside an extracted
\* paragraph or code block
C19_Witness ==
    /\ cpc = "done"
    /\ \E i \in DOMAIN html :
           html[i].tag \in {"p", "pre"} /\ HasHiddenText(html[i].kids)
    /\ elements # <<>>

\* a document with text in a removed element that goes the fallback path
C19_FallbackCase ==
    /\ cpc = "done"
    /\ HasHiddenText(html)
    /\ RawElements = <<>>
    /\ elements # <<>>

(***************************************************************************)
(* The JSON wrapper handling at the head of parseAndClean.  The argument   *)
(* is a string; JSON.parse belongs to the runtime, so an argument is given *)
(* as its characters (`raw`) together with what JSON.parse makes of them   *)
(* (`parsed`).  A JSON value is a record with its type in t; strings,      *)
(* numbers and booleans carry their text in v, an object carries its       *)
(* `contents` and `html` properties.                                       *)
(***************************************************************************)
JString(s) == [t |-> "string", v |-> s]
JNumber(s) == [t |-> "number", v |-> s]
JBoolean(s) == [t |-> "boolean", v |-> s]
JNull == [t |-> "null", v |-> "null"]
JArray == [t |-> "array", v |-> "[]"]
JObject(c, h) == [t |-> "object", contents |-> c, html |-> h]

\* a property an object does not have
Undefined == [t |-> "undefined", v |-> ""]

\* JSON.parse throws a SyntaxError
NotJson == [t |-> "SyntaxError", v |-> ""]

\* the markup strings of the model; none of them is JSON text
MarkupTexts == {"<p>a</p>", "<b>b</b>", "plain words"}

\* the values a `contents` or `html` property takes
PropertyValues ==
    {Undefined, JNull, JArray, JObject(Undefined, Undefined)}
        \cup {JString(s) : s \in MarkupTexts \cup {""}}
        \cup {JNumber(s) : s \in {"0", "5"}}
        \cup {JBoolean(s) : s \in {"true", "false"}}

JsonValues ==
    (PropertyValues \ {Undefined})
        \cup {JObject(c, h) : c \in PropertyValues, h \in PropertyValues}

\* the JSON text of a value (the strings of the model need no escapes)
RECURSIVE JsonText(_)
JsonText(val) ==
    CASE val.t = "string" -> "\"" \o val.v \o "\""
      [] val.t = "object" ->
             LET c == IF val.contents = Undefined THEN ""
                      ELSE "\"contents\":" \o JsonText(val.contents)
                 h == IF val.html = Undefined THEN ""
                      ELSE "\"html\":" \o JsonText(val.html)
             IN  "{" \o c \o (IF c # "" /\ h # "" THEN "," ELSE "") \o h \o "}"
      [] OTHER -> val.v

\* the arguments of parseAndClean: JSON texts and markup
HtmlArguments ==
    {[raw |-> JsonText(val), parsed |-> val] : val \in JsonValues}
        \cup {[raw |-> s, parsed |-> NotJson] : s \in MarkupTexts}

\* parsed.contents, parsed.html: undefined on everything but an object that
\* has the property (reading a property of null throws, see UnwrapOf)
Property(val, name) ==
    IF val.t = "object"
    THEN (IF name = "contents" THEN val.contents ELSE val.html)
    ELSE Undefined

\* the truth value of a JavaScript value in an if
Truthy(val) ==
    CASE val.t \in {"undefined", "null"} -> FALSE
      [] val.t = "string" -> val.v # ""
      [] val.t = "number" -> val.v # "0"
      [] val.t = "boolean" -> val.v = "true"
      [] OTHER -> TRUE

\* a variant that looks at parsed.html before parsed.contents
UnwrapHtmlFirst(arg) ==
    LET parsed == arg.parsed
    IN  IF parsed = NotJson \/ parsed = JNull THEN JString(arg.raw)
        ELSE IF Truthy(Property(parsed, "html")) THEN Property(parsed, "html")
        ELSE IF Truthy(Property(parsed, "contents"))
             THEN Property(parsed, "contents")
        ELSE IF parsed.t = "string" THEN parsed
        ELSE JString(arg.raw)

\* the value of cleanHtml behind the try statement: the argument itself when
\* JSON.parse throws or when the property read throws on null
UnwrapOf(arg) ==
    LET parsed == arg.parsed
    IN  IF parsed = NotJson \/ parsed = JNull THEN JString(arg.raw)
        ELSE IF Truthy(Property(parsed, "contents"))
             THEN Property(parsed, "contents")
        ELSE IF Truthy(Property(parsed, "html")) THEN Property(parsed, "html")
        ELSE IF parsed.t = "string" THEN parsed
        ELSE JString(arg.raw)

UnwrapInit ==
    /\ html \in HtmlArguments
    /\ cleanHtml = JString(html.raw)
    /\ upc = "try"
    /\ doc = <<>> /\ open = 0 /\ elements = <<>> /\ cpc = "idle"
    /\ ChunkIdle /\ RenderIdle /\ JsonIdle /\ PageIdle

\* try { const parsed = JSON.parse(html); ... } catch { }
Unwrap ==
    /\ upc = "try"
    /\ cleanHtml' = UnwrapOf(html)
    /\ upc' = "unwrapped"
    /\ UNCHANGED html
    /\ UNCHANGED <<chunkVars, cleanVars, renderVars, jsonVars, pageVars>>

SpecUnwrap == UnwrapInit /\ [][Unwrap]_vars

(***************************************************************************)
(* Vocabulary of the unwrapping properties                                 *)
(***************************************************************************)
\* the argument is JSON text of an object whose property `name` is a string
HasStringProperty(arg, name) ==
    /\ arg.parsed.t = "object"
    /\ arg.parsed[name].t = "string"

\* the argument is JSON text of a value with a truthy property `name`
HasTruthyProperty(arg, name) ==
    /\ arg.parsed.t = "object"
    /\ arg.parsed[name].t \notin {"undefined", "null"}
    /\ arg.parsed[name] \notin
           {JString(""), JNumber("0"), JBoolean("false")}

HandedUnchanged == cleanHtml = JString(html.raw)

(***************************************************************************)
(* C20 as stated: parseAndClean unwraps its input only when it is a JSON   *)
(* envelope with a string `contents` property or, failing that, a string   *)
(* `html` property; every other input, other JSON values included, goes to *)
(* the HTML parser unchanged.                                              *)
(***************************************************************************)
C20_Original ==
    upc = "unwrapped" =>
        IF HasStringProperty(html, "contents")
        THEN cleanHtml = html.parsed.contents
        ELSE IF HasStringProperty(html, "html")
        THEN cleanHtml = html.parsed.html
        ELSE HandedUnchanged

(***************************************************************************)
(* C20 amended: parseAndClean hands the parser the `contents` property of  *)
(* the parsed input when that is truthy, else its `html` property when     *)
(* that is truthy, else the parsed input itself when it is a JSON string;  *)
(* every other input goes to the HTML parser unchanged.                    *)
(***************************************************************************)
C20_Unwrap ==
    upc = "unwrapped" =>
        /\ HasTruthyProperty(html, "contents")
               => cleanHtml = html.parsed.contents
        /\ (~HasTruthyProperty(html, "contents")
               /\ HasTruthyProperty(html, "html"))
               => cleanHtml = html.parsed.html
        /\ (~HasTruthyProperty(html, "contents")
               /\ ~HasTruthyProperty(html, "html"))
               => IF html.parsed.t = "string" THEN cleanHtml = html.parsed
                  ELSE HandedUnchanged

\* an envelope with two different non-empty strings in `contents` and `html`
C20_Witness ==
    /\ upc = "unwrapped"
    /\ HasStringProperty(html, "contents")
    /\ HasStringProperty(html, "html")
    /\ html.parsed.contents.v # ""
    /\ html.parsed.html.v # ""
    /\ html.parsed.contents # html.parsed.html
    /\ cleanHtml = html.parsed.contents

(***************************************************************************)
(* detectLanguage (src/src/chunker.ts).  A character outside ASCII is      *)
(* written by its code point; CODE_POINTS gives the number.                *)
(***************************************************************************)
SAMPLE_LENGTH == 1000

\* the characters outside ASCII that the texts of the model use
CODE_POINTS ==
    [c \in {"U+4E2D", "U+3042", "U+30A2", "U+D55C", "U+044F", "U+0639",
            "U+05D0", "U+0939", "U+0E01", "U+00FC", "U+00DC", "U+00E8",
            "U+00E9", "U+2022", "U+00E2", "U+20AC", "U+00A2", "U+0060"} |->
        CASE c = "U+4E2D" -> 20013
          [] c = "U+3042" -> 12354
          [] c = "U+30A2" -> 12450
          [] c = "U+D55C" -> 54620
          [] c = "U+044F" -> 1103
          [] c = "U+0639" -> 1593
          [] c = "U+05D0" -> 1488
          [] c = "U+0939" -> 2361
          [] c = "U+0E01" -> 3585
          [] c = "U+00FC" -> 252
          [] c = "U+00DC" -> 220
          [] c = "U+00E8" -> 232
          [] c = "U+00E9" -> 233
          [] c = "U+2022" -> 8226
          [] c = "U+00E2" -> 226
          [] c = "U+20AC" -> 8364
          [] c = "U+00A2" -> 162
          [] c = "U+0060" -> 96]

\* the code of a character; every character written as itself is ASCII and
\* lies below the ranges tested, 0 stands for its code
CodeOf(c) == IF c \in DOMAIN CODE_POINTS THEN CODE_POINTS[c] ELSE 0

\* /[\uLLLL-\uHHHH...]/.test(s) for a set of <<low, high>> ranges
HasCharIn(s, ranges) ==
    \E i \in DOMAIN s : \E r \in ranges :
        r[1] <= CodeOf(s[i]) /\ CodeOf(s[i]) <= r[2]

\* String.prototype.toLowerCase, on A-Z and on U+00DC
toLowerCase(s) ==
    [i \in DOMAIN s |->
        IF IndexIn(UPPER, s[i]) > 0 THEN LOWER[IndexIn(UPPER, s[i])]
        ELSE IF s[i] = "U+00DC" THEN "U+00FC"
        ELSE s[i]]

\* \b at position p of s (between index p - 1 and index p): exactly one of
\* the two neighbours is a \w character
WordBoundary(s, p) ==
    LET isW(q) == q \in DOMAIN s /\ IsWordChar(s[q])
    IN  isW(p - 1) # isW(p)

\* the literal w stands in s at index i
StandsAt(s, w, i) ==
    /\ i + Len(w) - 1 <= Len(s)
    /\ \A k \in DOMAIN w : s[i + k - 1] = w[k]

\* /\b(w1|w2|...)\b/.test(s)
HasWord(s, words) ==
    \E i \in DOMAIN s : \E w \in words :
        StandsAt(s, w, i) /\ WordBoundary(s, i) /\ WordBoundary(s, i + Len(w))

DE_WORDS == {<<"d", "e", "r">>, <<"d", "i", "e">>, <<"d", "a", "s">>,
             <<"u", "n", "d">>, <<"i", "s", "t">>, <<"f", "U+00FC", "r">>}
FR_WORDS == {<<"l", "e">>, <<"l", "a">>, <<"l", "e", "s">>, <<"e", "t">>,
             <<"e", "s", "t">>, <<"p", "o", "u", "r">>}
ES_WORDS == {<<"e", "l">>, <<"l", "a">>, <<"l", "o", "s">>, <<"l", "a", "s">>,
             <<"e", "s">>, <<"p", "a", "r", "a">>}
IT_WORDS == {<<"i", "l">>, <<"l", "a">>, <<"g", "l", "i">>, <<"l", "e">>,
             <<"U+00E8">>, <<"p", "e", "r">>}
PT_WORDS == {<<"o">>, <<"a">>, <<"o", "s">>, <<"a", "s">>, <<"U+00E9">>,
             <<"p", "a", "r", "a">>}
NL_WORDS == {<<"d", "e">>, <<"h", "e", "t">>, <<"e", "e", "n">>, <<"e", "n">>,
             <<"i", "s">>, <<"v", "o", "o", "r">>}

\* a variant that tests the function words before the scripts
detectLanguageWordsFirst(txt) ==
    LET sample == SubSeq(txt, 1, Minimum(Len(txt), SAMPLE_LENGTH))
        lowerSample == toLowerCase(sample)
    IN  IF HasWord(lowerSample, DE_WORDS) THEN "de"
        ELSE IF HasWord(lowerSample, FR_WORDS) THEN "fr"
        ELSE IF HasWord(lowerSample, ES_WORDS) THEN "es"
        ELSE IF HasWord(lowerSample, IT_WORDS) THEN "it"
        ELSE IF HasWord(lowerSample, PT_WORDS) THEN "pt"
        ELSE IF HasWord(lowerSample, NL_WORDS) THEN "nl"
        ELSE IF HasCharIn(sample, {<<19968, 40959>>}) THEN "zh"
        ELSE IF HasCharIn(sample, {<<12352, 12447>>, <<12448, 12543>>}) THEN "ja"
        ELSE IF HasCharIn(sample, {<<44032, 55215>>}) THEN "ko"
        ELSE IF HasCharIn(sample, {<<1024, 1279>>}) THEN "ru"
        ELSE IF HasCharIn(sample, {<<1536, 1791>>}) THEN "ar"
        ELSE IF HasCharIn(sample, {<<1424, 1535>>}) THEN "he"
        ELSE IF HasCharIn(sample, {<<2304, 2431>>}) THEN "hi"
        ELSE IF HasCharIn(sample, {<<3584, 3711>>}) THEN "th"
        ELSE "en"

detectLanguage(txt) ==
    LET sample == SubSeq(txt, 1, Minimum(Len(txt), SAMPLE_LENGTH))
        lowerSample == toLowerCase(sample)
    IN  IF HasCharIn(sample, {<<19968, 40959>>}) THEN "zh"
        ELSE IF HasCharIn(sample, {<<12352, 12447>>, <<12448, 12543>>}) THEN "ja"
        ELSE IF HasCharIn(sample, {<<44032, 55215>>}) THEN "ko"
        ELSE IF HasCharIn(sample, {<<1024, 1279>>}) THEN "ru"
        ELSE IF HasCharIn(sample, {<<1536, 1791>>}) THEN "ar"
        ELSE IF HasCharIn(sample, {<<1424, 1535>>}) THEN "he"
        ELSE IF HasCharIn(sample, {<<2304, 2431>>}) THEN "hi"
        ELSE IF HasCharIn(sample, {<<3584, 3711>>}) THEN "th"
        ELSE IF HasWord(lowerSample, DE_WORDS) THEN "de"
        ELSE IF HasWord(lowerSample, FR_WORDS) THEN "fr"
        ELSE IF HasWord(lowerSample, ES_WORDS) THEN "es"
        ELSE IF HasWord(lowerSample, IT_WORDS) THEN "it"
        ELSE IF HasWord(lowerSample, PT_WORDS) THEN "pt"
        ELSE IF HasWord(lowerSample, NL_WORDS) THEN "nl"
        ELSE "en"

(***************************************************************************)
(* Specification of detectLanguage: one call on a text made of a few       *)
(* pieces (one character of every script range, one function word of      *)
(* every language, separators), some of them behind a padding that puts    *)
(* the pieces at the end of the 1000-character sample.                     *)
(***************************************************************************)
MaxPieces == 3      \* most pieces of a text without padding

LangPieces ==
    { <<"U+4E2D">>, <<"U+3042">>, <<"U+30A2">>, <<"U+D55C">>, <<"U+044F">>,
      <<"U+0639">>, <<"U+05D0">>, <<"U+0939">>, <<"U+0E01">>,
      <<"D", "e", "r">>, <<"l", "a">>, <<"e", "l">>, <<"i", "l">>, <<"o">>,
      <<"d", "e">>, <<"U+00E8">>, <<" ">>, <<"x">> }

\* the pieces put behind a padding
EdgePieces ==
    {<<"U+4E2D">>, <<"D", "e", "r">>, <<"l", "a">>, <<"d", "e">>, <<" ">>}

RECURSIVE ConcatPieces(_)
ConcatPieces(ps) ==
    IF ps = <<>> THEN <<>> ELSE Head(ps) \o ConcatPieces(Tail(ps))

\* n characters: word characters and one space at the end
Padding(n) == [i \in 1..n |-> IF i = n THEN " " ELSE "x"]

\* 'Der Hund ist für das Haus'
ExampleSentence ==
    <<"D", "e", "r", " ", "H", "u", "n", "d", " ", "i", "s", "t", " ",
      "f", "U+00FC", "r", " ", "d", "a", "s", " ", "H", "a", "u", "s">>

LangTexts ==
    {ConcatPieces(ps) : ps \in UNION {[1..n -> LangPieces] : n \in 0..MaxPieces}}
        \cup {Padding(n) \o p \o q :
                  n \in (SAMPLE_LENGTH - 2)..SAMPLE_LENGTH,
                  p \in EdgePieces, q \in EdgePieces}
        \cup {ExampleSentence}

LangInit ==
    /\ text \in LangTexts
    /\ targetTokens = 1
    /\ pc = "idle"
    /\ maxChars = 0
    /\ remaining = <<>>
    /\ chunkNumber = 1
    /\ chunks = <<>>
    /\ language = ""
    /\ json = <<>>
    /\ jpc = "detect"
    /\ doc = <<>> /\ open = 0 /\ elements = <<>> /\ cpc = "idle"
    /\ UnwrapIdle /\ RenderIdle /\ PageIdle

\* detectLanguage(text)
DetectLanguage ==
    /\ jpc = "detect"
    /\ language' = detectLanguage(text)
    /\ jpc' = "detected"
    /\ UNCHANGED json
    /\ UNCHANGED <<chunkVars, cleanVars, unwrapVars, renderVars, pageVars>>

SpecLang == LangInit /\ [][DetectLanguage]_vars

(***************************************************************************)
(* Vocabulary of the language properties                                   *)
(***************************************************************************)
\* the checks in their order of priority: eight scripts with their ranges,
\* six languages with their function words
SCRIPTS ==
    << [code |-> "zh", ranges |-> {<<19968, 40959>>}],
       [code |-> "ja", ranges |-> {<<12352, 12447>>, <<12448, 12543>>}],
       [code |-> "ko", ranges |-> {<<44032, 55215>>}],
       [code |-> "ru", ranges |-> {<<1024, 1279>>}],
       [code |-> "ar", ranges |-> {<<1536, 1791>>}],
       [code |-> "he", ranges |-> {<<1424, 1535>>}],
       [code |-> "hi", ranges |-> {<<2304, 2431>>}],
       [code |-> "th", ranges |-> {<<3584, 3711>>}] >>

FUNCTION_WORDS ==
    << [code |-> "de", words |-> DE_WORDS], [code |-> "fr", words |-> FR_WORDS],
       [code |-> "es", words |-> ES_WORDS], [code |-> "it", words |-> IT_WORDS],
       [code |-> "pt", words |-> PT_WORDS], [code |-> "nl", words |-> NL_WORDS] >>

\* the first 1000 characters of the text
LeadingSample == SubSeq(text, 1, Minimum(Len(text), SAMPLE_LENGTH))

\* the indices of the script checks and of the word checks that match
ScriptHits ==
    {i \in DOMAIN SCRIPTS : HasCharIn(LeadingSample, SCRIPTS[i].ranges)}

WordHits ==
    {i \in DOMAIN FUNCTION_WORDS :
         HasWord(toLowerCase(LeadingSample), FUNCTION_WORDS[i].words)}

(***************************************************************************)
(* C18: detectLanguage looks at the first 1000 characters only and returns *)
(* the first match in the order zh, ja, ko, ru, ar, he, hi, th, de, fr,    *)
(* es, it, pt, nl, else en: a script character outranks every function     *)
(* word, and 'Der Hund ist für das Haus' yields de.                        *)
(***************************************************************************)
C18_PriorityOrder ==
    jpc = "detected" =>
        /\ language = IF ScriptHits # {} THEN SCRIPTS[SetMin(ScriptHits)].code
                      ELSE IF WordHits # {}
                      THEN FUNCTION_WORDS[SetMin(WordHits)].code
                      ELSE "en"
        /\ text = ExampleSentence => language = "de"

\* a text whose sample ends in a function word of two languages, with a
\* script character right behind the sample
C18_Witness ==
    /\ jpc = "detected"
    /\ Len(text) > SAMPLE_LENGTH
    /\ HasCharIn(SubSeq(text, SAMPLE_LENGTH + 1, Len(text)), {<<19968, 40959>>})
    /\ Cardinality(WordHits) > 1
    /\ language = "fr"

(***************************************************************************)
(* toJSON (src/src/chunker.ts): chunkText, then detectLanguage, then the   *)
(* envelope.  The chunkText call is the state machine of Spec.             *)
(***************************************************************************)
\* the characters of the texts handed to toJSON: the Portuguese function
\* word "a", a space, a sentence ender, a CJK ideograph
JsonAlphabet == {"a", " ", ".", "U+4E2D"}

JsonTexts == UNION {[1..n -> JsonAlphabet] : n \in 0..MaxLen}

\* a variant of the envelope that keeps the first chunk only
JsonEnvelopeFirstChunk(lang, cs) ==
    [source |-> "user-pasted-html",
     language |-> lang,
     content |-> IF cs = <<>> THEN cs ELSE <<cs[1]>>]

\* return { source: 'user-pasted-html', language, content: chunks }
JsonEnvelope(lang, cs) ==
    [source |-> "user-pasted-html", language |-> lang, content |-> cs]

JsonInit ==
    /\ text \in JsonTexts
    /\ targetTokens \in 1..MaxTarget
    /\ pc = "start"
    /\ maxChars = 0
    /\ remaining = <<>>
    /\ chunkNumber = 1
    /\ chunks = <<>>
    /\ language = ""
    /\ json = <<>>
    /\ jpc = "chunking"
    /\ doc = <<>> /\ open = 0 /\ elements = <<>> /\ cpc = "idle"
    /\ UnwrapIdle /\ RenderIdle /\ PageIdle

\* const language = detectLanguage(text), once chunkText has returned
ToJSONDetect ==
    /\ jpc = "chunking"
    /\ pc = "done"
    /\ language' = detectLanguage(text)
    /\ jpc' = "detected"
    /\ UNCHANGED json
    /\ UNCHANGED <<chunkVars, cleanVars, unwrapVars, renderVars, pageVars>>

\* the return statement of toJSON
ToJSONReturn ==
    /\ jpc = "detected"
    /\ pc = "done"
    /\ json' = JsonEnvelope(language, chunks)
    /\ jpc' = "returned"
    /\ UNCHANGED language
    /\ UNCHANGED <<chunkVars, cleanVars, unwrapVars, renderVars, pageVars>>

SpecJson == JsonInit /\ [][Next \/ ToJSONDetect \/ ToJSONReturn]_vars

(***************************************************************************)
(* C17: for every text and targetTokens the envelope toJSON returns has    *)
(* the source 'user-pasted-html', as content the chunks chunkText returned *)
(* for the text and targetTokens, and as language detectLanguage of the    *)
(* same text.                                                              *)
(***************************************************************************)
C17_Envelope ==
    jpc = "returned" =>
        /\ DOMAIN json = {"source", "language", "content"}
        /\ json.source = "user-pasted-html"
        /\ json.content = chunks
        /\ json.language = detectLanguage(text)

\* an envelope of several chunks for a text that is not taken for English
C17_Witness ==
    /\ jpc = "returned"
    /\ Len(json.content) > 1
    /\ json.language \in {"zh", "pt"}
    /\ \E i \in DOMAIN text : text[i] = "U+4E2D"


(***************************************************************************)
(* Rendering one element array several times                               *)
(*                                                                         *)
(* toPlainText and toMarkdown receive the array by reference.  `elements`  *)
(* is that array; each call leaves in it what its loop assigned, and is    *)
(* logged in `calls` with the array it found, the array it left and the    *)
(* string it returned.                                                     *)
(***************************************************************************)
MaxShared == 2      \* longest element array rendered repeatedly
MaxCalls == 3       \* most calls made on one array

SharedSeqs == UNION {[1..n -> RenderElements] : n \in 0..MaxShared}

\* a variant of the loop that upper-cases the heading in place
\* (el.content = el.content.toUpperCase())
PlainTextUppercases(elems) ==
    [i \in DOMAIN elems |->
        IF elems[i].type = "heading"
        THEN [elems[i] EXCEPT !.content = toUpperCase(@)]
        ELSE elems[i]]

\* the array after toPlainText: for (const el of elements) reads el.type,
\* el.content and el.level and assigns to no element and to no slot
PlainTextLeaves(elems) == elems

\* the array after toMarkdown: the loop reads el.type, el.content, el.level
\* and el.listType; its assignments go to the locals lines, inOrderedList
\* and orderedIndex
MarkdownLeaves(elems) == elems

RerenderInit ==
    /\ elements \in SharedSeqs
    /\ doc = Elem("body", "", <<>>) /\ open = 0 /\ cpc = "idle"
    /\ rendered = <<>>
    /\ rpc = "ready"
    /\ calls = <<>>
    /\ ChunkIdle /\ UnwrapIdle /\ JsonIdle /\ AppIdle /\ FetchIdle

\* one more toPlainText(elements) on the same array
CallToPlainText ==
    /\ Len(calls) < MaxCalls
    /\ rendered' = toPlainText(elements)
    /\ elements' = PlainTextLeaves(elements)
    /\ rpc' = "plain"
    /\ calls' = Append(calls, [fn |-> "toPlainText", given |-> elements,
                               left |-> elements', result |-> rendered'])
    /\ UNCHANGED <<doc, open, cpc>>
    /\ UNCHANGED <<chunkVars, unwrapVars, jsonVars, appVars, fetchVars>>

\* one more toMarkdown(elements) on the same array
CallToMarkdown ==
    /\ Len(calls) < MaxCalls
    /\ rendered' = toMarkdown(elements)
    /\ elements' = MarkdownLeaves(elements)
    /\ rpc' = "markdown"
    /\ calls' = Append(calls, [fn |-> "toMarkdown", given |-> elements,
                               left |-> elements', result |-> rendered'])
    /\ UNCHANGED <<doc, open, cpc>>
    /\ UNCHANGED <<chunkVars, unwrapVars, jsonVars, appVars, fetchVars>>

SpecRerender == RerenderInit /\ [][CallToPlainText \/ CallToMarkdown]_vars

(***************************************************************************)
(* C21: toPlainText and toMarkdown leave the element array passed to them  *)
(* unchanged (same elements, same order, same fields), so however often    *)
(* and in whichever order one array is rendered, every toPlainText call    *)
(* returns one string and every toMarkdown call returns one string.        *)
(***************************************************************************)
C21_ElementsUntouched ==
    \A i \in DOMAIN calls :
        /\ calls[i].left = calls[i].given
        /\ calls[i].given = calls[1].given
        /\ \A j \in DOMAIN calls :
               calls[j].fn = calls[i].fn => calls[j].result = calls[i].result

\* toPlainText, toMarkdown and toPlainText again on an array with a heading
\* the two renderers print differently
C21_Witness ==
    /\ Len(calls) = 3
    /\ calls[1].fn = "toPlainText"
    /\ calls[2].fn = "toMarkdown"
    /\ calls[3].fn = "toPlainText"
    /\ \E i \in DOMAIN elements : elements[i].type = "heading"
    /\ calls[1].result # calls[2].result


(***************************************************************************)
(* The page script (app.ts): cleanHTML and getChunkSize                    *)
(*                                                                         *)
(* cleanHTML runs parseAndClean (the state machine above, entered with     *)
(* the tree the markup of htmlInput denotes), then renders, reads the      *)
(* chunk size and calls toJSON.  `text` and `targetTokens` hold the two    *)
(* arguments of that toJSON call, `json` what it returned.  Of the         *)
(* handler's writes the script variables currentMode and currentOutput     *)
(* are kept; currentStats and the writes to the page (stats line, toast,   *)
(* button states) only display values held here and are left out.         *)
(***************************************************************************)
\* a JavaScript number: NaN, or the integer `value`
NaN == [isNaN |-> TRUE, value |-> 0]
Number(n) == [isNaN |-> FALSE, value |-> n]
isNaN(v) == v.isNaN

\* the value of the digit c in the radix, -1 when c is no digit of it
DigitValue(c, radix) ==
    LET hex == <<"0", "1", "2", "3", "4", "5", "6", "7", "8", "9",
                 "a", "b", "c", "d", "e", "f">>
        HEX == <<"0", "1", "2", "3", "4", "5", "6", "7", "8", "9",
                 "A", "B", "C", "D", "E", "F">>
        v == IF IndexIn(hex, c) > 0 THEN IndexIn(hex, c) - 1
             ELSE IndexIn(HEX, c) - 1
    IN  IF v < radix THEN v ELSE -1

\* the number the leading digits of s denote, NaN when s starts with none
RECURSIVE ParseDigits(_, _, _, _)
ParseDigits(s, radix, acc, seen) ==
    IF s # <<>> /\ DigitValue(Head(s), radix) >= 0
    THEN ParseDigits(Tail(s), radix, acc * radix + DigitValue(Head(s), radix),
                     TRUE)
    ELSE IF seen THEN Number(acc) ELSE NaN

\* parseInt(string) without a radix: leading white space is skipped, a
\* sign is read, a 0x / 0X prefix selects radix 16, the longest prefix of
\* digits is the value and whatever follows it is ignored.  (The integer
\* is exact here; a double rounds it beyond 2^53, far above the clamp.)
parseInt(string) ==
    LET lead == CHOOSE k \in 0..Len(string) :
                    /\ \A i \in 1..k : IsSpace(string[i])
                    /\ k < Len(string) => ~IsSpace(string[k + 1])
        s1 == SubSeq(string, lead + 1, Len(string))
        signed == s1 # <<>> /\ Head(s1) \in {"-", "+"}
        sign == IF s1 # <<>> /\ Head(s1) = "-" THEN -1 ELSE 1
        s2 == IF signed THEN Tail(s1) ELSE s1
        isHex == Len(s2) >= 2 /\ s2[1] = "0" /\ s2[2] \in {"x", "X"}
        s3 == IF isHex THEN SubSeq(s2, 3, Len(s2)) ELSE s2
        n == ParseDigits(s3, IF isHex THEN 16 ELSE 10, 0, FALSE)
    IN  IF isNaN(n) THEN NaN ELSE Number(sign * n.value)

\* a variant of getChunkSize without the clamp
getChunkSizeUnclamped(value) ==
    IF isNaN(parseInt(value)) THEN 1000 ELSE parseInt(value).value

\* isNaN(value) ? 1000 : Math.max(400, Math.min(2000, value))
getChunkSize(value) ==
    LET v == parseInt(value)
        min == IF 2000 < v.value THEN 2000 ELSE v.value
    IN  IF isNaN(v) THEN 1000
        ELSE IF 400 > min THEN 400 ELSE min

\* the while loop of chunkText, run to its end
RECURSIVE ChunkAll(_, _, _, _)
ChunkAll(rem, maxC, n, cs) ==
    IF Len(rem) = 0 THEN cs
    ELSE ChunkAll(RestSlice(rem, maxC), maxC,
                  NextNumber(n, ChunkSlice(rem, maxC)),
                  PushChunk(cs, n, ChunkSlice(rem, maxC)))

\* chunkText(t, target) for a target no smaller than the clamp's minimum
chunkTextOf(t, target) ==
    LET normalizedText == Trim(t)
        totalTokens == estimateTokens(normalizedText)
    IN  IF normalizedText = <<>> THEN <<>>
        ELSE IF FitsOneChunk(totalTokens, target)
        THEN << [chunk |-> 1, text |-> normalizedText,
                 approx_tokens |-> totalTokens] >>
        ELSE ChunkAll(normalizedText,
                      MaxCharsOf(normalizedText, totalTokens, target), 1, <<>>)

\* toJSON(t, target)
toJSON(t, target) == JsonEnvelope(detectLanguage(t), chunkTextOf(t, target))

\* what the chunk-size field can hold: around the limits of the clamp and
\* far outside, with white space, a sign or 0x in front and a fraction,
\* an exponent or a unit behind, values that are no number, and numerals
\* parseInt does not read
FieldNumbers == {0, 7, 399, 400, 401, 1000, 1999, 2000, 2001, 99999}
FieldPrefixes == {<<>>, <<" ">>, <<"-">>, <<"+">>, <<"0", "x">>}
FieldSuffixes == {<<>>, <<".", "5">>, <<"e", "3">>, <<"p", "x">>}
NonNumeric == {<<>>, <<" ">>, <<"a", "b", "c">>, <<"-">>, <<"p", "x">>}
UnreadNumerals ==
    {<<".", "5">>, <<"0", "x">>, <<"I", "n", "f", "i", "n", "i", "t", "y">>}
FieldValues ==
    {p \o NumberToString(n) \o s :
         p \in FieldPrefixes, n \in FieldNumbers, s \in FieldSuffixes}
        \cup NonNumeric \cup UnreadNumerals

OutputModes == {"plaintext", "markdown", "json"}

\* the markup of ExampleBody
ExampleMarkup ==
    << "<", "h", "1", ">", "T", "i", "t", "l", "e", "<", "/", "h", "1",
       ">", "<", "p", ">", "H", "e", "l", "l", "o", " ", "w", "o", "r",
       "l", "d", ".", "<", "/", "p", ">", "<", "u", "l", ">", "<", "l",
       "i", ">", "A", "<", "/", "l", "i", ">", "<", "l", "i", ">", "B",
       "<", "/", "l", "i", ">", "<", "/", "u", "l", ">" >>

\* the pages pasted into htmlInput: the markup and the tree it denotes
Pages ==
    { [markup |-> <<>>, body |-> Elem("body", "", <<>>)],
      [markup |-> <<"<", "b", "r", ">">>,
       body |-> Elem("body", "", <<Elem("br", "", <<>>)>>)],
      [markup |-> ExampleMarkup, body |-> ExampleBody] }

CleanHTMLInit ==
    /\ chunkSizeInput \in FieldValues
    /\ \E page \in Pages : htmlInput = page.markup /\ doc = page.body
    /\ currentMode = "plaintext"
    /\ currentOutput = <<>>
    /\ apc = "ready"
    /\ open = 0 /\ elements = <<>> /\ cpc = "idle"
    /\ calls = <<>>
    /\ urlInput = <<>> /\ fetchBtn = FALSE /\ fetches = <<>> /\ requests = <<>>
    /\ ChunkIdle /\ UnwrapIdle /\ RenderIdle /\ JsonIdle

\* cleanHTML up to the call parseAndClean(html)
CleanHTMLStart ==
    /\ apc = "ready"
    /\ IF Trim(htmlInput) = <<>>
       THEN apc' = "done" /\ UNCHANGED cpc
       ELSE apc' = "cleaning" /\ cpc' = "parsed"
    /\ UNCHANGED <<doc, open, elements>>
    /\ UNCHANGED <<chunkSizeInput, currentMode, currentOutput>>
    /\ UNCHANGED <<chunkVars, unwrapVars, renderVars, jsonVars, calls, fetchVars>>

\* cleanHTML from the return of parseAndClean to its end
CleanHTMLFinish ==
    /\ apc = "cleaning"
    /\ cpc = "done"
    /\ apc' = "done"
    /\ IF Len(elements) = 0
       THEN /\ currentOutput' = <<>>
            /\ UNCHANGED <<currentMode, text, targetTokens, pc, chunks,
                           rendered, rpc, language, json, jpc>>
       ELSE LET plainText == toPlainText(elements)
                chunkSize == getChunkSize(chunkSizeInput)
                jsonOutput == toJSON(plainText, chunkSize)
            IN  /\ rendered' = plainText
                /\ rpc' = "plain"
                /\ text' = plainText
                /\ targetTokens' = chunkSize
                /\ chunks' = jsonOutput.content
                /\ pc' = "done"
                /\ language' = jsonOutput.language
                /\ json' = jsonOutput
                /\ jpc' = "returned"
                /\ \E mode \in OutputModes :
                       /\ currentMode' = mode
                       /\ currentOutput' =
                              CASE mode = "plaintext" -> plainText
                                [] mode = "markdown" -> toMarkdown(elements)
                                [] mode = "json" -> [stringify |-> jsonOutput]
    /\ UNCHANGED <<maxChars, remaining, chunkNumber>>
    /\ UNCHANGED <<chunkSizeInput, cleanVars, unwrapVars, calls, fetchVars>>

SpecCleanHTML ==
    CleanHTMLInit /\ [][CleanHTMLStart \/ CleanNext \/ CleanHTMLFinish]_vars

\* cleanHTML has called toJSON
CalledToJSON == apc = "done" /\ jpc = "returned"

(***************************************************************************)
(* C22: the chunk size cleanHTML passes to toJSON is an integer in the     *)
(* inclusive range [400, 2000] whatever the chunk-size field holds, and    *)
(* it is 1000 when the field holds no number.                              *)
(***************************************************************************)
C22_ChunkSizeClamped ==
    CalledToJSON =>
        /\ targetTokens \in 400..2000
        /\ chunkSizeInput \in NonNumeric => targetTokens = 1000

\* toJSON has been called in json mode with the field holding -99999.5
C22_Witness ==
    /\ CalledToJSON
    /\ currentMode = "json"
    /\ chunkSizeInput = <<"-", "9", "9", "9", "9", "9", ".", "5">>
    /\ targetTokens = 400


(***************************************************************************)
(* Break points: longer texts of words, breaks and sentence enders         *)
(***************************************************************************)
MaxTail == 5        \* longest tail behind the leading word

\* a word character, the space, the newline and two of the punctuation
\* marks of the sentence enders
BreakAlphabet == {"a", " ", "\n", ".", "!"}

\* a four-letter word and a tail: long enough for two break candidates
\* behind each other in the second half of the window
BreakTexts ==
    {<<"a", "a", "a", "a">> \o t :
         t \in UNION {[1..n -> BreakAlphabet] : n \in 0..MaxTail}}

BreakInit ==
    /\ text \in BreakTexts
    /\ targetTokens \in 1..MaxTarget
    /\ pc = "start"
    /\ maxChars = 0
    /\ remaining = <<>>
    /\ chunkNumber = 1
    /\ chunks = <<>>
    /\ doc = <<>> /\ open = 0 /\ elements = <<>> /\ cpc = "idle"
    /\ UnwrapIdle /\ RenderIdle /\ JsonIdle /\ PageIdle

SpecBreak == BreakInit /\ [][Next]_vars

(***************************************************************************)
(* Vocabulary of the break point properties                                *)
(***************************************************************************)
\* the loop is about to call findBreakPoint(remaining, maxChars)
BreakCall == pc = "loop" /\ Len(remaining) > maxChars

\* the 0-based positions at or before maxPos and beyond tenths/10 * maxPos
\* at which one of the strings of `marks` starts in s
Qualifying(s, maxPos, marks, tenths) ==
    {p \in 0..maxPos :
        /\ 10 * p > tenths * maxPos
        /\ \E mark \in marks :
               /\ p + Len(mark) <= Len(s)
               /\ SubSeq(s, p + 1, p + Len(mark)) = mark}

ParagraphBreaks(s, maxPos) == Qualifying(s, maxPos, {<<"\n", "\n">>}, 5)
LineBreaks(s, maxPos) == Qualifying(s, maxPos, {<<"\n">>}, 6)
SentenceEnds(s, maxPos) ==
    Qualifying(s, maxPos, {<<".", " ">>, <<"!", " ">>, <<"?", " ">>,
                           <<".", "\n">>, <<"!", "\n">>, <<"?", "\n">>}, 5)
Spaces(s, maxPos) == Qualifying(s, maxPos, {<<" ">>}, 7)

\* chunkText has taken the splitting path
Splitting == pc = "loop" \/ maxChars > 0

(***************************************************************************)
(* C23: when findBreakPoint falls through to the sentence rule (no         *)
(* paragraph break and no line break qualifies, a sentence ender does),    *)
(* it returns position + 2 of the rightmost sentence ender that starts at  *)
(* or before maxChars and beyond 0.5 * maxChars.                           *)
(***************************************************************************)
C23_RightmostEnder ==
    ( /\ BreakCall
      /\ ParagraphBreaks(remaining, maxChars) = {}
      /\ LineBreaks(remaining, maxChars) = {}
      /\ SentenceEnds(remaining, maxChars) # {} )
    => findBreakPoint(remaining, maxChars)
           = SetMax(SentenceEnds(remaining, maxChars)) + 2

(***************************************************************************)
(* C24: when chunkText splits a text, every chunk it has emitted is at     *)
(* most maxChars characters long.                                          *)
(***************************************************************************)
C24_ChunkWithinMaxChars ==
    Splitting => \A i \in DOMAIN chunks : Len(chunks[i].text) <= maxChars

(***************************************************************************)
(* C25: findBreakPoint applies its rules in priority order with their      *)
(* thresholds: behind the last paragraph break beyond 0.5 * maxChars, else *)
(* behind the last line break beyond 0.6, else behind a sentence ender     *)
(* beyond 0.5, else behind the last space beyond 0.7; it returns the hard  *)
(* cut maxChars only when none of the four has a qualifying position at    *)
(* or before maxChars.                                                     *)
(***************************************************************************)
C25_RulePriority ==
    BreakCall =>
        LET s == remaining
            m == maxChars
            breakPos == findBreakPoint(s, m)
        IN  IF ParagraphBreaks(s, m) # {}
            THEN breakPos = SetMax(ParagraphBreaks(s, m)) + 2
            ELSE IF LineBreaks(s, m) # {}
            THEN breakPos = SetMax(LineBreaks(s, m)) + 1
            ELSE IF SentenceEnds(s, m) # {}
            THEN breakPos - 2 \in SentenceEnds(s, m)
            ELSE IF Spaces(s, m) # {}
            THEN breakPos = SetMax(Spaces(s, m)) + 1
            ELSE breakPos = m

\* the first call has cut behind a line break although a sentence ender
\* farther right qualified as well
C25_Witness ==
    LET s == Trim(text)
    IN  /\ Splitting
        /\ Len(s) > maxChars
        /\ Len(chunks) >= 1
        /\ ParagraphBreaks(s, maxChars) = {}
        /\ LineBreaks(s, maxChars) # {}
        /\ SentenceEnds(s, maxChars) # {}
        /\ SetMax(SentenceEnds(s, maxChars)) > SetMax(LineBreaks(s, maxChars))
        /\ chunks[1].text
               = Trim(SliceTo(s, SetMax(LineBreaks(s, maxChars)) + 1))


(***************************************************************************)
(* Vocabulary of the rule and list properties                              *)
(***************************************************************************)
IsRule(el) == el.type = "break" /\ el.content = RULE_MARK

HasContent(el) == el.type # "break" /\ el.content # <<>>

\* the traversal emitted a '---' break at index i, with an element that has
\* content somewhere before it and one somewhere after it
RuleBetweenContent(raw, i) ==
    /\ IsRule(raw[i])
    /\ \E j \in 1..(i - 1) : HasContent(raw[j])
    /\ \E k \in (i + 1)..Len(raw) : HasContent(raw[k])

(***************************************************************************)
(* C26: every hr the traversal visited that has an element with content    *)
(* before it and after it in the emitted sequence is in the sequence        *)
(* parseAndClean returns, as a break with content '---' standing behind     *)
(* the same content as in the emitted sequence.                             *)
(***************************************************************************)
C26_RuleSurvives ==
    cpc = "done" =>
        \A i \in DOMAIN RawElements :
            RuleBetweenContent(RawElements, i) =>
                \E n \in DOMAIN elements :
                    /\ IsRule(elements[n])
                    /\ JoinContents(NonBreaks(SubSeq(elements, 1, n - 1)))
                           = JoinContents(NonBreaks(SubSeq(RawElements, 1, i - 1)))


(***************************************************************************)
(* Specification of parseAndClean over documents of lists: ul, ol and li,  *)
(* a div as the element between a list and its items, main as the content *)
(* root inside or outside a list.                                          *)
(***************************************************************************)
ListLabels ==
    [texts |-> {<<"x">>},
     voids |-> {"br"},
     boxes |-> {<<"ul", "">>, <<"ol", "">>, <<"li", "">>, <<"div", "">>,
                <<"main", "">>}]

SpecCleanLists ==
    CleanInit /\ [][ParseText(ListLabels) \/ ParseVoid(ListLabels)
                     \/ ParseStartTag(ListLabels) \/ ParseEndTag \/ ParseEnd
                     \/ CleanNext]_vars

\* the elements through whose children the traversal goes on
Descends(tag) ==
    tag \notin {"#text", "p", "blockquote", "pre", "code", "li", "br", "hr"}
               \cup DOMAIN HEADING_LEVEL

\* for the li elements with text that the traversal reaches below `node`,
\* in document order: "ordered" if the nearest ul / ol descended through on
\* the way is an ol, "unordered" if it is a ul or there is none;
\* `nearest` is the tag of that list above `node`, "" when there is none
RECURSIVE NearestLists(_, _)
RECURSIVE NearestListsOf(_, _, _)
NearestLists(node, nearest) ==
    IF node.tag = "li"
    THEN IF getTextContent(node) = <<>> THEN <<>>
         ELSE <<IF nearest = "ol" THEN "ordered" ELSE "unordered">>
    ELSE IF ~Descends(node.tag) THEN <<>>
    ELSE NearestListsOf(node.kids, 1,
                        IF node.tag \in {"ul", "ol"} THEN node.tag ELSE nearest)

NearestListsOf(kids, i, nearest) ==
    IF i > Len(kids) THEN <<>>
    ELSE NearestLists(kids[i], nearest) \o NearestListsOf(kids, i + 1, nearest)

\* the listType fields of the list-items of a sequence
ListTypesOf(elems) ==
    LET items == SelectSeq(elems, LAMBDA el : el.type = "list-item")
    IN  [i \in DOMAIN items |-> items[i].listType]

\* the content root the traversal starts from
ContentRoot ==
    IF FirstMatch(doc.kids) # NoNode THEN FirstMatch(doc.kids) ELSE doc

(***************************************************************************)
(* C27: the list-items parseAndClean returns are those of the li elements  *)
(* the traversal reaches, each with listType 'ordered' exactly when the    *)
(* nearest ul / ol the traversal descended through on the way to the li is *)
(* an ol, and 'unordered' otherwise (an li under no list included).        *)
(***************************************************************************)
C27_NearestList ==
    cpc = "done" => ListTypesOf(elements) = NearestLists(ContentRoot, "")

\* <ol><div><li>x</li></div></ol>: the item below the div is returned as an
\* ordered one
C27_Witness ==
    /\ cpc = "done"
    /\ doc.kids = << Elem("ol", "", << Elem("div", "",
                        << Elem("li", "", <<TextNode(<<"x">>)>>) >>) >>) >>
    /\ elements = <<Extracted("list-item", <<"x">>, 0, "ordered")>>


(***************************************************************************)
(* The URL fetcher (fetchUrl with its progress callback, dist/fetcher.js)  *)
(* and the page's fetchFromUrl (app.ts)                                    *)
(*                                                                         *)
(* fetchUrl is an async function: it runs up to its next await, and a      *)
(* step of the model is the run from the settling of the awaited promise   *)
(* (fetch() or response.text()) to the next await or the return.  What     *)
(* the network answers is chosen in the step.  `fetches` holds the calls   *)
(* made, `requests` what was handed to fetch(), each request with the      *)
(* response and the body the network gave.  The awaiting fetchFromUrl      *)
(* resumes in the same turn of the event loop in which fetchUrl returns,   *)
(* before any other event is handled, so its continuation belongs to the   *)
(* returning step.  The progress bar and the toast display values held     *)
(* in `fetches` and are left out.                                          *)
(***************************************************************************)
MaxFetches == 2     \* most fetchFromUrl invocations that reach fetchUrl

CORS_PROXIES ==
    << [url |-> "https://api.allorigins.win/get?url=", isJson |-> TRUE,
        contentKey |-> "contents"],
       [url |-> "https://corsproxy.io/?", isJson |-> FALSE, contentKey |-> ""],
       [url |-> "https://api.codetabs.com/v1/proxy?quest=", isJson |-> FALSE,
        contentKey |-> ""] >>

INVALID_URL == "Invalid URL format"
COULD_NOT_FETCH == "Could not fetch URL. The site may be blocking requests. Try copying the HTML manually (Ctrl+U in browser, then copy all)."

\* the URLs of the model: empty, without a scheme, with a scheme that is
\* not http(s), http, https in capitals, https without a host, http in blanks
Urls ==
    { <<>>,
      <<"a", ".", "b">>,
      <<"f", "t", "p", ":", "/", "/", "a">>,
      <<"h", "t", "t", "p", ":", "/", "/", "a">>,
      <<"H", "T", "T", "P", "S", ":", "/", "/", "a">>,
      <<"h", "t", "t", "p", "s", ":", "/", "/">>,
      <<" ", "h", "t", "t", "p", ":", "/", "/", "a", " ">> }

SCHEME_CHARS == (WORD_CHARS \ {"_"}) \cup {"+", "-", "."}

\* parsed.protocol for new URL(url), <<>> when the constructor throws: blanks
\* around the input are stripped, the scheme is a letter and scheme
\* characters up to the first colon and is lower-cased; without a scheme
\* the input is a relative reference and, no base given, an error; an http
\* or https URL needs a host behind the colon and any slashes
protocolOf(url) ==
    LET s == Trim(url)
        colons == {i \in DOMAIN s : s[i] = ":"}
        colon == IF colons = {} THEN 0 ELSE SetMin(colons)
        scheme == toLowerCase(SubSeq(s, 1, colon - 1))
        isScheme == /\ colon > 1
                    /\ IndexIn(LOWER, scheme[1]) > 0
                    /\ \A i \in DOMAIN scheme : scheme[i] \in SCHEME_CHARS
        rest == SubSeq(s, colon + 1, Len(s))
        hostless == \A i \in DOMAIN rest : rest[i] \in {"/", "\\"}
    IN  IF ~isScheme THEN <<>>
        ELSE IF scheme \in {<<"h", "t", "t", "p">>, <<"h", "t", "t", "p", "s">>}
                /\ hostless
        THEN <<>>
        ELSE scheme \o <<":">>

\* a variant that accepts every URL the constructor accepts
isValidUrlAnyProtocol(url) == protocolOf(url) # <<>>

\* parsed.protocol === 'http:' || parsed.protocol === 'https:', false when
\* new URL(url) throws
isValidUrl(url) ==
    protocolOf(url) \in {<<"h", "t", "t", "p", ":">>,
                         <<"h", "t", "t", "p", "s", ":">>}

\* String.prototype.includes
includes(s, sub) ==
    \E i \in 0..(Len(s) - Len(sub)) : SubSeq(s, i + 1, i + Len(sub)) = sub

\* html.includes('<') && (html.includes('</') || html.includes('/>'))
looksLikeHtml(h) ==
    includes(h, <<"<">>) /\ (includes(h, <<"<", "/">>) \/ includes(h, <<"/", ">">>))

\* a response body: its characters and what JSON.parse makes of them
\* (t is "SyntaxError" when it throws; `contents` is the property of an
\* object, of type "undefined" when the object has none)
NoProperty == [t |-> "undefined", v |-> <<>>]
TextBody(raw) == [raw |-> raw, json |-> [t |-> "SyntaxError", contents |-> NoProperty]]
EnvelopeBody(c) ==
    [raw |-> <<"{", "\"", "c", "o", "n", "t", "e", "n", "t", "s", "\"", ":", "\"">>
                 \o c \o <<"\"", "}">>,
     json |-> [t |-> "object", contents |-> [t |-> "string", v |-> c]]]
NullBody == [raw |-> <<"n", "u", "l", "l">>,
             json |-> [t |-> "null", contents |-> NoProperty]]

PAGE == <<"<", "p", ">", "a", "<", "/", "p", ">">>

\* the bodies of the model: a page, markup without an end tag, the empty
\* body, the page in a JSON envelope, an envelope without a page, JSON null
Bodies ==
    { TextBody(PAGE), TextBody(<<"<", "b", "r", ">">>), TextBody(<<>>),
      EnvelopeBody(PAGE), EnvelopeBody(<<>>), NullBody }

\* what the network can answer: how the promise of fetch() settles and,
\* where response.text() resolves, with which body
Network == [responses |-> {"error", "not ok", "ok"}, bodies |-> Bodies]

\* the answers for the page with several fetches under way: the page
\* itself or the page in an envelope
PageNetwork ==
    [responses |-> {"error", "ok"},
     bodies |-> {TextBody(PAGE), EnvelopeBody(PAGE)}]

\* let html = await response.text(); if (proxy.isJson && proxy.contentKey)
\* try { html = JSON.parse(html)[proxy.contentKey] || html } catch { }
proxyHtml(proxy, body) ==
    IF proxy.isJson /\ proxy.contentKey # ""
    THEN IF body.json.t = "object" /\ body.json.contents.t = "string"
            /\ body.json.contents.v # <<>>
         THEN body.json.contents.v
         ELSE body.raw
    ELSE body.raw

\* const progressPercent = 20 + ((i + 1) / totalSteps) * 60
proxyPercent(i) == 20 + ((i + 1) * 60) \div (Len(CORS_PROXIES) + 1)

Event(stage, percent) == [stage |-> stage, percent |-> percent]

\* the object fetchUrl returns; `settled` is false while the call runs
Running == [settled |-> FALSE, success |-> FALSE, html |-> <<>>, error |-> "",
            usedProxy |-> ""]
Success(h, usedProxy) ==
    [settled |-> TRUE, success |-> TRUE, html |-> h, error |-> "",
     usedProxy |-> usedProxy]
Failure(error) ==
    [settled |-> TRUE, success |-> FALSE, html |-> <<>>, error |-> error,
     usedProxy |-> ""]

\* what is handed to fetch(): the direct request has the URL itself, a
\* proxy request proxy.url + encodeURIComponent(url), kept as its two parts
Unread == [state |-> "unread", raw |-> <<>>,
           json |-> [t |-> "SyntaxError", contents |-> NoProperty]]
Request(k, to, url) ==
    [call |-> k, to |-> to, url |-> url, response |-> "pending", body |-> Unread]

\* fetchUrl(url, onProgress) up to its first await
FetchUrlBegin(caller, url) ==
    IF ~isValidUrl(url)
    THEN [caller |-> caller, url |-> url, at |-> "returned", i |-> -1,
          events |-> <<>>, result |-> Failure(INVALID_URL)]
    ELSE [caller |-> caller, url |-> url, at |-> "direct", i |-> -1,
          events |-> <<Event("connecting", 10)>>, result |-> Running]

\* the head of the for loop at index i: the next proxy is tried, or the
\* loop is left and the failure returned
TryProxy(c, i) ==
    IF i < Len(CORS_PROXIES)
    THEN [c EXCEPT !.at = "proxy", !.i = i,
                   !.events = Append(@, Event("trying-proxy", proxyPercent(i)))]
    ELSE [c EXCEPT !.at = "returned",
                   !.events = Append(@, Event("error", 100)),
                   !.result = Failure(COULD_NOT_FETCH)]

\* return { success: true, html, usedProxy }
ReturnHtml(c, h, usedProxy) ==
    [c EXCEPT !.at = "returned",
              !.events = Append(@, Event("done", 100)),
              !.result = Success(h, usedProxy)]

\* the request call k is waiting for
Awaited(k) ==
    CHOOSE n \in DOMAIN requests :
        requests[n].call = k /\ \A m \in DOMAIN requests :
                                    requests[m].call = k => m <= n

\* the rest of fetchFromUrl once fetchUrl has returned
Resume(c) ==
    IF c.at = "returned" /\ c.caller = "fetchFromUrl"
    THEN /\ htmlInput' = IF c.result.success /\ c.result.html # <<>>
                         THEN c.result.html ELSE htmlInput
         /\ fetchBtn' = FALSE
    ELSE UNCHANGED <<htmlInput, fetchBtn>>

\* call k goes on as c2 with the log reqs; a call that is at a proxy again
\* has sent that proxy's request
GoOn(k, c2, reqs) ==
    /\ fetches' = [fetches EXCEPT ![k] = c2]
    /\ requests' = IF c2.at = "proxy"
                   THEN Append(reqs, Request(k, CORS_PROXIES[c2.i + 1].url, c2.url))
                   ELSE reqs
    /\ Resume(c2)
    /\ UNCHANGED urlInput
    /\ UNCHANGED <<chunkVars, cleanVars, unwrapVars, renderVars, jsonVars,
                   calls, appVars>>

FetchInit ==
    /\ urlInput \in Urls
    /\ fetchBtn = FALSE
    /\ htmlInput = <<>>
    /\ fetches = <<>>
    /\ requests = <<>>
    /\ calls = <<>>
    /\ doc = <<>> /\ open = 0 /\ elements = <<>> /\ cpc = "idle"
    /\ ChunkIdle /\ UnwrapIdle /\ RenderIdle /\ JsonIdle /\ AppIdle

\* a call of fetchUrl starts
StartFetch(caller, url) ==
    LET c == FetchUrlBegin(caller, url)
        k == Len(fetches) + 1
    IN  /\ fetches' = Append(fetches, c)
        /\ requests' = IF c.at = "direct"
                       THEN Append(requests, Request(k, "direct", url))
                       ELSE requests

\* fetchUrl(url, onProgress) called by a user of the module
CallFetchUrl ==
    /\ fetches = <<>>
    /\ StartFetch("caller", urlInput)
    /\ UNCHANGED <<urlInput, fetchBtn, htmlInput>>
    /\ UNCHANGED <<chunkVars, cleanVars, unwrapVars, renderVars, jsonVars,
                   calls, appVars>>

\* fetchFromUrl up to await fetchUrl(url, updateFetchProgress)
fetchFromUrl ==
    LET url == Trim(urlInput)
    IN  /\ IF url = <<>> \/ ~isValidUrl(url)
           THEN UNCHANGED <<fetchBtn, fetches, requests>>
           ELSE /\ Len(fetches) < MaxFetches
                /\ fetchBtn' = TRUE
                /\ StartFetch("fetchFromUrl", url)
        /\ UNCHANGED <<urlInput, htmlInput>>
        /\ UNCHANGED <<chunkVars, cleanVars, unwrapVars, renderVars, jsonVars,
                       calls, appVars>>

\* a click on the fetch button; a disabled button dispatches no click
ClickFetch == ~fetchBtn /\ fetchFromUrl

\* the Enter key in the URL field
EnterInUrl == fetchFromUrl

\* the promise of the direct fetch() settles
DirectResponse(N) ==
    \E k \in DOMAIN fetches : \E response \in N.responses :
        /\ fetches[k].at = "direct"
        /\ LET c == fetches[k]
               reqs == [requests EXCEPT ![Awaited(k)].response = response]
           IN  IF response = "ok"
               THEN GoOn(k, [c EXCEPT !.at = "directBody",
                                      !.events = Append(@, Event("downloading", 80))],
                         reqs)
               ELSE GoOn(k, TryProxy(c, 0), reqs)

\* the promise of the direct response.text() settles
DirectBody(N) ==
    \E k \in DOMAIN fetches :
        /\ fetches[k].at = "directBody"
        /\ LET c == fetches[k]
           IN  \/ GoOn(k, TryProxy(c, 0),
                       [requests EXCEPT ![Awaited(k)].body.state = "error"])
               \/ \E b \in N.bodies :
                      GoOn(k, ReturnHtml(c, b.raw, "direct"),
                           [requests EXCEPT ![Awaited(k)].body =
                                [state |-> "read", raw |-> b.raw, json |-> b.json]])

\* the promise of a proxy fetch() settles (rejected also by the abort of
\* the 15 s timer)
ProxyResponse(N) ==
    \E k \in DOMAIN fetches : \E response \in N.responses :
        /\ fetches[k].at = "proxy"
        /\ LET c == fetches[k]
               reqs == [requests EXCEPT ![Awaited(k)].response = response]
           IN  IF response = "ok"
               THEN GoOn(k, [c EXCEPT !.at = "proxyBody",
                                      !.events = Append(@, Event("downloading", 85))],
                         reqs)
               ELSE GoOn(k, TryProxy(c, c.i + 1), reqs)

\* the promise of a proxy response.text() settles
ProxyBody(N) ==
    \E k \in DOMAIN fetches :
        /\ fetches[k].at = "proxyBody"
        /\ LET c == fetches[k]
               proxy == CORS_PROXIES[c.i + 1]
           IN  \/ GoOn(k, TryProxy(c, c.i + 1),
                       [requests EXCEPT ![Awaited(k)].body.state = "error"])
               \/ \E b \in N.bodies :
                      LET h == proxyHtml(proxy, b)
                          reqs == [requests EXCEPT ![Awaited(k)].body =
                                      [state |-> "read", raw |-> b.raw,
                                       json |-> b.json]]
                      IN  IF looksLikeHtml(h)
                          THEN GoOn(k, ReturnHtml(c, h, proxy.url), reqs)
                          ELSE GoOn(k, TryProxy(c, c.i + 1), reqs)

FetchUrlNext(N) ==
    DirectResponse(N) \/ DirectBody(N) \/ ProxyResponse(N) \/ ProxyBody(N)

\* one call of fetchUrl
SpecFetchUrl == FetchInit /\ [][CallFetchUrl \/ FetchUrlNext(Network)]_vars

\* the page: the user's clicks and Enter keys, and the fetches they start
SpecPage ==
    FetchInit /\ [][ClickFetch \/ EnterInUrl \/ FetchUrlNext(PageNetwork)]_vars


(***************************************************************************)
(* Vocabulary of the fetch properties                                      *)
(***************************************************************************)
\* the URLs of the model that are http or https URLs
HTTP_URLS ==
    { <<"h", "t", "t", "p", ":", "/", "/", "a">>,
      <<"H", "T", "T", "P", "S", ":", "/", "/", "a">>,
      <<" ", "h", "t", "t", "p", ":", "/", "/", "a", " ">> }

\* where the attempts go, in the order of the claim
AttemptOrder ==
    <<"direct", CORS_PROXIES[1].url, CORS_PROXIES[2].url, CORS_PROXIES[3].url>>

RequestsOf(k) == SelectSeq(requests, LAMBDA r : r.call = k)

\* the attempt is over: fetch() rejected or gave a response that is not ok,
\* or response.text() has settled
Completed(r) == r.response \in {"error", "not ok"} \/ r.body.state # "unread"

\* the markup an attempt with a body hands over
DeliveredHtml(r) ==
    IF r.to = "direct" THEN r.body.raw
    ELSE LET n == CHOOSE n \in DOMAIN CORS_PROXIES : CORS_PROXIES[n].url = r.to
         IN  proxyHtml(CORS_PROXIES[n], r.body)

\* s holds a "<" and an end tag opener or a self-closing tag end
HasMarkup(s) ==
    /\ \E i \in DOMAIN s : s[i] = "<"
    /\ \E i \in 1..(Len(s) - 1) :
           \/ s[i] = "<" /\ s[i + 1] = "/"
           \/ s[i] = "/" /\ s[i + 1] = ">"

\* the attempt got an ok response and its body, and a proxy's body is markup
Succeeded(r) ==
    /\ r.response = "ok"
    /\ r.body.state = "read"
    /\ r.to # "direct" => HasMarkup(DeliveredHtml(r))

Failed(r) == Completed(r) /\ ~Succeeded(r)

InFlight(k) == ~fetches[k].result.settled

(***************************************************************************)
(* C28: fetchUrl makes no request for a URL that is not a valid http or    *)
(* https URL.  Otherwise its requests are, in this order, the direct one   *)
(* and those to the CORS proxies as listed, each for the URL given; every  *)
(* request but the last one made has failed; while the call runs the last  *)
(* request is under way; a success result is that of the last request,     *)
(* which succeeded; the failure result is returned only when all four      *)
(* requests have been made and have failed.                                *)
(***************************************************************************)
C28_AttemptsInOrder ==
    \A k \in DOMAIN fetches :
        LET c == fetches[k]
            rs == RequestsOf(k)
            last == rs[Len(rs)]
        IN  IF c.url \notin HTTP_URLS
            THEN rs = <<>> /\ c.result = Failure(INVALID_URL)
            ELSE /\ Len(rs) \in 1..Len(AttemptOrder)
                 /\ \A n \in DOMAIN rs :
                        rs[n].to = AttemptOrder[n] /\ rs[n].url = c.url
                 /\ \A n \in 1..(Len(rs) - 1) : Failed(rs[n])
                 /\ InFlight(k) => ~Completed(last)
                 /\ (~InFlight(k) /\ c.result.success) =>
                        /\ Succeeded(last)
                        /\ c.result.html = DeliveredHtml(last)
                        /\ c.result.usedProxy = last.to
                 /\ (~InFlight(k) /\ ~c.result.success) =>
                        /\ Len(rs) = Len(AttemptOrder)
                        /\ Failed(last)
                        /\ c.result = Failure(COULD_NOT_FETCH)

\* the call has returned the page the last proxy delivered, after the
\* direct request and the two proxies before it failed
C28_Witness ==
    /\ Len(fetches) = 1
    /\ ~InFlight(1)
    /\ fetches[1].result.success
    /\ fetches[1].result.usedProxy = CORS_PROXIES[3].url
    /\ Len(requests) = 4

(***************************************************************************)
(* C29: during one fetchUrl call with a progress callback the percent      *)
(* reported never decreases from one progress event to the next, and the   *)
(* last event of a call that has returned is 'done' at 100 on success and  *)
(* 'error' at 100 on failure.                                              *)
(***************************************************************************)
C29_ProgressMonotone ==
    \A k \in DOMAIN fetches :
        LET events == fetches[k].events
        IN  /\ \A n \in 1..(Len(events) - 1) :
                   events[n].percent <= events[n + 1].percent
            /\ (~InFlight(k) /\ events # <<>>) =>
                   events[Len(events)] =
                       IF fetches[k].result.success THEN Event("done", 100)
                       ELSE Event("error", 100)

(***************************************************************************)
(* C30: at most one URL fetch is in flight at any time: from the moment    *)
(* fetchFromUrl starts a fetch until it settles, no click on the fetch     *)
(* button and no Enter in the URL field starts a second one.               *)
(***************************************************************************)
C30_OneFetchInFlight ==
    Cardinality({k \in DOMAIN fetches : InFlight(k)}) <= 1
====
